---- MODULE Spec2Model ----
(***************************************************************************)
(* Verification model of the bike-sharing data pipeline                    *)
(* (camillabonomo02/CSS_project).                                          *)
(*                                                                         *)
(*   SpecCal     : active_services_on (GTFS service-calendar expansion)    *)
(*                 applied to bounded calendar / calendar_dates tables.    *)
(*   SpecHour    : the script src/features/gtfs_to_station_hour.py.        *)
(*   SpecSpatial : build_spatial and _routes_per_stop of                   *)
(*                 scripts/build_datasets.py.                              *)
(*   SpecMaps    : the intermodality index of run_maps in                  *)
(*                 scripts/analysis_suite.py.                              *)
(*   SpecFetch   : the live-status fetcher                                 *)
(*                 src/etl/bicincitta_fetch_json.py.                       *)
(*   SpecMerge   : src/etl/merge_hourly_features.py.                       *)
(*   SpecDaily   : the daily tables of 04_covariates_station_day.py,       *)
(*                 07_station_day_features_2022.py and 09_join_weather.py. *)
(*   SpecBuild   : build_datasets.main and 03_build_model_matrix.main at   *)
(*                 the level of the files they need and write.             *)
(*   SpecParse   : fetch_once of the fetcher on one JSON answer.           *)
(*   SpecTrips   : src/etl/snapshots_to_trips.py.                          *)
(*   SpecMobility: the stages that filter the Google Mobility report       *)
(*                 (clean_mobility, 02_gmr_day.py, INPUT/OUTPUT).          *)
(*   SpecPipeline: the stages upstream of 03_build_model_matrix.py and its *)
(*                 main, at the level of file names and columns.           *)
(* Each specification runs one script; the variables of the other scripts  *)
(* stay at their idle values.                                              *)
(*                                                                         *)
(* Tables are sequences of records (a pandas DataFrame is an ordered list  *)
(* of rows); a nullable cell is None (NaN) or Some(v).                      *)
(***************************************************************************)
EXTENDS Integers, Sequences, FiniteSets, TLC

VARIABLES
    \* ---- src/features/gtfs_to_station_hour.py : active_services_on ----
    cal,        \* calendar.txt of one feed: sequence of rows
    cald,       \* calendar_dates.txt of the same feed: sequence of rows
    day,        \* the pd.Timestamp handed to active_services_on, as a day ordinal
    active,     \* the set active_services_on returned
    calpc,      \* "input" before the call, "done" after it
    \* ---- src/features/gtfs_to_station_hour.py : the script ----
    STATIONS,   \* station_index.geo.parquet: [station_id, x]
    gtfs,       \* the loaded feed partitions <<urb, ext>>
    near_maps,  \* per partition, the (station_id, stop_id) pairs within BUFFER_M
    d0, d1,     \* gtfs_date_range(gtfs)
    dates,      \* pd.date_range(d0, d1)
    di, gi,     \* position of the nested loop: index into dates, into gtfs
    frames,     \* the frames appended so far
    feat,       \* the feature table being built: [cols, rows]
    parquet,    \* gtfs_station_hour.parquet: None until written, then Some(rows)
    hpc,        \* "load", "loop", "group", "total", "done", "crashed"
    \* ---- scripts/build_datasets.py : build_spatial ----
    gstations,      \* stations_clean.geojson in EPSG:3857: [station_id, x]
    gstops,         \* gtfs_stops_2025.geojson in EPSG:3857: [stop_id, x]
    stop_times,     \* stop_times.txt: [stop_id, trip_id]
    trips,          \* trips.txt: [trip_id, route_id]
    nearest,        \* sjoin_nearest(gstations, gstops)
    routes_at_stop, \* _routes_per_stop(raw_dir)
    gstops_routes,  \* gstops with n_routes_at_stop
    rings,          \* the buffered stop layer used for each radius so far
    results,        \* the per-radius aggregates appended so far
    accessibility,  \* station_accessibility_2025.parquet: None, then Some(rows)
    spc,            \* "start", "buffers", "done"
    \* ---- scripts/analysis_suite.py : run_maps ----
    gfile,      \* station_accessibility_2025.geojson as found on disk: [cols, rows]
    g,          \* the frame run_maps works on
    mi,         \* position of the loop over the radii (300, 500)
    mpc,        \* "read", "index", "done"
    \* ---- src/etl/bicincitta_fetch_json.py ----
    once,       \* FETCH_ONCE == "1"
    FREQ_SEC,   \* POLL_EVERY_SEC, seconds slept between two cycles
    now,        \* seconds since the script started
    fts,        \* line 77: the local time read for the snapshot being saved
    status,     \* the files of OUTDIR as they are on disk: a set of [name, rows]
    fpc,        \* "fetch", "save", "write", "sleep", "exited", "raised"
    frows,      \* the rows the last fetch_once returned
    fbuf,       \* the lines f.write has taken that the file object still holds
    sess,       \* the requests.Session of the script: "open" or "closed"
    \* ---- src/etl/merge_hourly_features.py ----
    H,          \* station_hour.parquet: [station_id, date, hour, trips_hour]
    Xg,         \* gtfs_station_hour.parquet: [station_id, date, hour, dep_hour_total_300m]
    XgObject,   \* Xg has the object columns of the frame built without rows
    Sidx,       \* station_index.csv: [station_id, zone]
    out,        \* model_hour_dataset.parquet: None until written, then Some(rows)
    mgpc,       \* "read", "done", "ValueError"
    \* ---- src/etl/04_covariates_station_day.py, 07_station_day_features_2022.py,
    \*      09_join_weather.py ----
    gtfsH,      \* gtfs_station_hour.parquet
    gmr,        \* gmr_day.parquet: [date, gmr_transit]
    stidx,      \* station_index.geo.parquet: [station_id, capacity, zone]
    wx,         \* weather_2022.parquet: [date, tmax, prcp]
    cov,        \* station_day_covariates.parquet: None until written, then Some(rows)
    sdf,        \* station_day_features_2022.parquet: None, or Some([cols, rows])
    jpc,        \* what last wrote sdf: "absent", "fresh" (07), "joined" (09 once),
                \* "rejoined" (09 again), "raised" (09 raised)
    \* ---- scripts/build_datasets.py : main, and src/etl/03_build_model_matrix.py ----
    present,    \* the upstream files that exist
    gpd,        \* TRUE when geopandas could be imported
    written,    \* the output files written so far
    bpc,        \* build_datasets.main: "start", "temporal_done", "done",
                \* "raised_temporal", "raised_spatial"
    xpc,        \* 03_build_model_matrix.main: "start", "done", "raised"
    layout,     \* the columns of the files 03 reads: "written" or "expected"
    \* ---- src/etl/bicincitta_fetch_json.py : fetch_once on one JSON answer ----
    js,         \* the JSON answer of the POST: [kind, list, d]
    fetched,    \* what fetch_once returned: None until it returns, then Some(rows)
    ppc,        \* "call", "returned"
    \* ---- src/etl/snapshots_to_trips.py ----
    snaps,      \* the status_*.ndjson files in name order: [ts, rows of [station_id, bikes]]
    df,         \* the frame df of the script
    station_hour,   \* station_hour.parquet: None until written, then Some(rows)
    station_day,    \* station_day.parquet: None until written, then Some(rows)
    tpc,        \* "start", "read", "inferred", "done", "exit"
    \* ---- clean_all.clean_mobility, src/etl/02_gmr_day.py and INPUT/OUTPUT ----
    report,     \* 2022_IT_Region_Mobility_Report.csv: rows in file order
    mobility_trento,    \* mobility_trento_2022.parquet: None, then Some(rows)
    gmr_day,    \* gmr_day.parquet: None, then Some([geo_level, rows])
    cmpc,       \* clean_mobility: "start", "done", "raised"
    gdpc,       \* 02_gmr_day.py: "start", "done", "raised"
    iopc,       \* INPUT/OUTPUT: "start", "done", "raised"
    \* ---- the ETL stages upstream of 03_build_model_matrix.py, at the level of
    \*      the files of data/processed and their columns ----
    gmr_source, \* the GMR columns the mobility report has
    proc,       \* data/processed: a set of [name, cols, empty]
    ran,        \* the scripts that have run to their end
    seeded,     \* data/processed held the files 03 expects before any script ran
    mmpc        \* 03_build_model_matrix.main: "start", "done", or the error raised

calVars == <<cal, cald, day, active, calpc>>
hourVars == <<STATIONS, gtfs, near_maps, d0, d1, dates, di, gi, frames, feat, parquet, hpc>>

spatialVars == <<gstations, gstops, stop_times, trips, nearest, routes_at_stop,
                 gstops_routes, rings, results, accessibility, spc>>

mapsVars == <<gfile, g, mi, mpc>>

fetchVars == <<once, FREQ_SEC, now, fts, status, fpc, frows, fbuf, sess>>

mergeVars == <<H, Xg, XgObject, Sidx, out, mgpc>>

dailyVars == <<gtfsH, gmr, stidx, wx, cov, sdf, jpc>>

buildVars == <<present, gpd, layout, written, bpc, xpc>>

parseVars == <<js, fetched, ppc>>

tripsVars == <<snaps, df, station_hour, station_day, tpc>>

mobilityVars == <<report, mobility_trento, gmr_day, cmpc, gdpc, iopc>>

pipelineVars == <<gmr_source, proc, ran, seeded, mmpc>>

vars == <<calVars, hourVars, spatialVars, mapsVars, fetchVars, mergeVars, dailyVars,
          buildVars,
          parseVars,
          tripsVars,
          mobilityVars,
          pipelineVars>>

\* what an action of one script leaves alone: the state of the other scripts
notCalVars == <<hourVars, spatialVars, mapsVars, fetchVars, mergeVars, dailyVars, buildVars,
    parseVars,
    tripsVars,
    mobilityVars,
    pipelineVars>>
notHourVars == <<calVars, spatialVars, mapsVars, fetchVars, mergeVars, dailyVars, buildVars,
    parseVars,
    tripsVars,
    mobilityVars,
    pipelineVars>>
notSpatialVars == <<calVars, hourVars, mapsVars, fetchVars, mergeVars, dailyVars, buildVars,
    parseVars,
    tripsVars,
    mobilityVars,
    pipelineVars>>
notMapsVars == <<calVars, hourVars, spatialVars, fetchVars, mergeVars, dailyVars, buildVars,
    parseVars,
    tripsVars,
    mobilityVars,
    pipelineVars>>
notFetchVars == <<calVars, hourVars, spatialVars, mapsVars, mergeVars, dailyVars, buildVars,
    parseVars,
    tripsVars,
    mobilityVars,
    pipelineVars>>
notMergeVars == <<calVars, hourVars, spatialVars, mapsVars, fetchVars, dailyVars, buildVars,
    parseVars,
    tripsVars,
    mobilityVars,
    pipelineVars>>
notDailyVars == <<calVars, hourVars, spatialVars, mapsVars, fetchVars, mergeVars, buildVars,
    parseVars,
    tripsVars,
    mobilityVars,
    pipelineVars>>
notBuildVars == <<calVars, hourVars, spatialVars, mapsVars, fetchVars, mergeVars, dailyVars,
    parseVars,
    tripsVars,
    mobilityVars,
    pipelineVars>>
notParseVars == <<calVars, hourVars, spatialVars, mapsVars, fetchVars, mergeVars, dailyVars, buildVars,
    tripsVars,
    mobilityVars,
    pipelineVars>>
notTripsVars == <<calVars, hourVars, spatialVars, mapsVars, fetchVars, mergeVars, dailyVars, buildVars, parseVars,
    mobilityVars,
    pipelineVars>>
notMobilityVars == <<calVars, hourVars, spatialVars, mapsVars, fetchVars, mergeVars, dailyVars, buildVars, parseVars, tripsVars,
    pipelineVars>>
notPipelineVars == <<calVars, hourVars, spatialVars, mapsVars, fetchVars, mergeVars, dailyVars, buildVars, parseVars, tripsVars, mobilityVars>>

(***************************************************************************)
(* Generic helpers on sets and sequences                                   *)
(***************************************************************************)
Range(s) == {s[i] : i \in DOMAIN s}

RECURSIVE SetToSeq(_)
\* the elements of a finite set of integers in increasing order
SetToSeq(S) ==
    IF S = {} THEN <<>>
    ELSE LET m == CHOOSE x \in S : \A y \in S : x <= y
         IN  <<m>> \o SetToSeq(S \ {m})

\* all sequences over S of length 0..n
SeqsUpTo(S, n) == UNION {[1..k -> S] : k \in 0..n}

Min(S) == CHOOSE x \in S : \A y \in S : x <= y
Max(S) == CHOOSE x \in S : \A y \in S : x >= y

(***************************************************************************)
(* Dates.  GTFS writes a date as the integer YYYYMMDD; pandas parses it    *)
(* (pd.to_datetime(..., format="%Y%m%d")) into a Timestamp, modelled as    *)
(* the number of days since 2000-01-01, and formats it back with           *)
(* strftime("%Y%m%d").  Valid for the years 2000..2099.                    *)
(***************************************************************************)
CumDays == <<0, 31, 59, 90, 120, 151, 181, 212, 243, 273, 304, 334>>

IsLeap(y) == y % 4 = 0

YearStart(y) == 365 * (y - 2000) + ((y - 2000) + 3) \div 4

MonthStart(y, m) == YearStart(y) + CumDays[m] + (IF IsLeap(y) /\ m > 2 THEN 1 ELSE 0)

\* pd.to_datetime(n, format="%Y%m%d")
ToDatetime(n) ==
    LET y == n \div 10000
        m == (n \div 100) % 100
        d == n % 100
    IN  MonthStart(y, m) + d - 1

\* Timestamp.strftime("%Y%m%d") as an integer
Strftime(t) ==
    LET r == t % 1461     \* position in the four-year cycle that starts with a leap year
        y == 2000 + 4 * (t \div 1461) + (IF r < 366 THEN 0 ELSE 1 + (r - 366) \div 365)
        m == CHOOSE mm \in 1..12 :
                 /\ MonthStart(y, mm) <= t
                 /\ (mm = 12 \/ t < MonthStart(y, mm + 1))
    IN  y * 10000 + m * 100 + (t - MonthStart(y, m) + 1)

\* Timestamp.weekday(): Monday = 0 ... Sunday = 6  (2000-01-01 was a Saturday)
Weekday(t) == (t + 5) % 7

(***************************************************************************)
(* active_services_on(cal, cald, day)                                      *)
(*   a calendar row  : [service_id, flags (monday..sunday), start_date,    *)
(*                      end_date]                                          *)
(*   an exception row: [service_id, date, exception_type]                  *)
(***************************************************************************)
\* cal[(cal[weekday]==1) & (start<=day) & (end>=day)]["service_id"]
BaseServices(c, t) ==
    {c[i].service_id : i \in {j \in DOMAIN c :
        /\ c[j].flags[Weekday(t) + 1] = 1
        /\ ToDatetime(c[j].start_date) <= t
        /\ ToDatetime(c[j].end_date) >= t}}

\* cald[(cald["date"]==int(day.strftime("%Y%m%d"))) & (cald["exception_type"]==k)]["service_id"]
ExceptionServicesBroken(cd, t, k) ==
    {cd[i].service_id : i \in {j \in DOMAIN cd : cd[j].exception_type = k}}

ExceptionServices(cd, t, k) ==
    {cd[i].service_id : i \in {j \in DOMAIN cd :
        cd[j].date = Strftime(t) /\ cd[j].exception_type = k}}

\* a variant in which an explicit add survives a removal on the same date
ActiveServicesOnAddWins(c, cd, t) ==
    (BaseServices(c, t) \ ExceptionServices(cd, t, 2)) \cup ExceptionServices(cd, t, 1)

ActiveServicesOn(c, cd, t) ==
    LET base == BaseServices(c, t)
        add  == ExceptionServices(cd, t, 1)
        rem  == ExceptionServices(cd, t, 2)
        s    == base \cup add
    IN  s \ rem

(***************************************************************************)
(* SpecCal: inputs of active_services_on                                   *)
(***************************************************************************)
NServices == 2
MaxExceptions == 3

Services == 1..NServices

Monday == <<1, 0, 0, 0, 0, 0, 0>>
NotMonday == <<0, 1, 1, 1, 1, 1, 1>>
FlagChoices == {Monday, NotMonday}

\* 2025-02-28 is a Friday, 2025-03-03 and 2025-03-10 are Mondays
RangeChoices == {<<20250228, 20250303>>, <<20250304, 20250310>>}
QueryDates == {20250228, 20250303, 20250310}
ExceptionDates == {20250303, 20250310}

CalRows ==
    [service_id : Services, flags : FlagChoices,
     start_date : {r[1] : r \in RangeChoices}, end_date : {r[2] : r \in RangeChoices}]

\* calendar.txt: at most one row per service_id, in service_id order
CalTables ==
    {c \in SeqsUpTo({r \in CalRows : <<r.start_date, r.end_date>> \in RangeChoices}, NServices) :
        \A i, j \in DOMAIN c : i < j => c[i].service_id < c[j].service_id}

ExceptionRows == [service_id : Services, date : ExceptionDates, exception_type : {1, 2}]

LessException(a, b) ==
    \/ a.service_id < b.service_id
    \/ a.service_id = b.service_id /\ a.date < b.date
    \/ a.service_id = b.service_id /\ a.date = b.date /\ a.exception_type < b.exception_type

CaldTables ==
    {cd \in SeqsUpTo(ExceptionRows, MaxExceptions) :
        \A i, j \in DOMAIN cd : i < j => LessException(cd[i], cd[j])}

CalInit ==
    /\ cal \in CalTables
    /\ cald \in CaldTables
    /\ day = 0
    /\ active = {}
    /\ calpc = "input"

CalIdle ==
    /\ cal = <<>>
    /\ cald = <<>>
    /\ day = 0
    /\ active = {}
    /\ calpc = "idle"

\* one call active_services_on(cal, cald, day)
Expand ==
    /\ calpc = "input"
    /\ \E q \in QueryDates :
          /\ day' = ToDatetime(q)
          /\ active' = ActiveServicesOn(cal, cald, ToDatetime(q))
    /\ calpc' = "done"
    /\ UNCHANGED <<cal, cald, notCalVars>>

CalNext == Expand


(***************************************************************************)
(* Table helpers (pandas merge / groupby on sequences of records)          *)
(***************************************************************************)
\* a nullable cell: None is NaN, Some(v) a value
None == <<>>
Some(v) == <<v>>
\* fillna(0) / skipna of one cell
OrZero(c) == IF c = None THEN 0 ELSE c[1]

\* all pairs <<l[i], r[j]>>, left-major
Cross(l, r) ==
    [k \in 1..(Len(l) * Len(r)) |->
        <<l[((k - 1) \div Len(r)) + 1], r[((k - 1) % Len(r)) + 1]>>]

RECURSIVE SumSeq(_)
SumSeq(s) == IF s = <<>> THEN 0 ELSE s[1] + SumSeq(Tail(s))

\* lexicographic order on equally long tuples of integers
LexLess(a, b) ==
    \E i \in 1..Len(a) : a[i] < b[i] /\ \A j \in 1..(i - 1) : a[j] = b[j]

RECURSIVE SortKeys(_)
\* the distinct group keys in sorted order (groupby sorts its keys)
SortKeys(S) ==
    IF S = {} THEN <<>>
    ELSE LET m == CHOOSE x \in S : \A y \in S \ {x} : LexLess(x, y)
         IN  <<m>> \o SortKeys(S \ {m})

(***************************************************************************)
(* departure_time strings, as sequences of characters; an empty CSV field  *)
(* (the empty sequence) is read by pandas as NaN.                          *)
(***************************************************************************)
Digits == {"0", "1", "2", "3", "4", "5", "6", "7", "8", "9"}

DigitVal(c) ==
    CASE c = "0" -> 0 [] c = "1" -> 1 [] c = "2" -> 2 [] c = "3" -> 3 [] c = "4" -> 4
      [] c = "5" -> 5 [] c = "6" -> 6 [] c = "7" -> 7 [] c = "8" -> 8 [] c = "9" -> 9

NotNa(t) == t # <<>>

\* re.match(r"^\d{1,2}:\d{2}(:\d{2})?$", t); "$" matches at the end of the
\* string and also just before one newline that ends the string
MatchesTime(t) ==
    LET n == IF t # <<>> /\ t[Len(t)] = "\n" THEN Len(t) - 1 ELSE Len(t)
    IN  \E k \in {2, 3} :
            /\ n \in {k + 2, k + 5}
            /\ \A i \in 1..(k - 1) : t[i] \in Digits
            /\ t[k] = ":"
            /\ t[k + 1] \in Digits /\ t[k + 2] \in Digits
            /\ n = k + 5 => (t[k + 3] = ":" /\ t[k + 4] \in Digits /\ t[k + 5] \in Digits)

\* number of fields of t.split(":")
NParts(t) == Cardinality({i \in DOMAIN t : t[i] = ":"}) + 1

\* int(t.split(":")[0]) of a string that matched
HourField(t) ==
    LET k == CHOOSE i \in DOMAIN t : t[i] = ":" /\ \A j \in 1..(i - 1) : t[j] # ":"
    IN  IF k = 2 THEN DigitVal(t[1]) ELSE 10 * DigitVal(t[1]) + DigitVal(t[2])

HourModulus == 48

\* the hour folded into one calendar day
HourOfFolded(t) == HourField(t) % 24

\* h[0] % 48
HourOf(t) == HourField(t) % HourModulus

(***************************************************************************)
(* src/features/gtfs_to_station_hour.py                                    *)
(*   a feed partition g: [tag, stops, trips, stt, cal, cald]               *)
(*   stops: [stop_id, x]   (x: easting in metres after to_crs(32632); the  *)
(*          model places stations and stops on one east-west line, where   *)
(*          the buffer polygon has a vertex exactly BUFFER_M away)         *)
(*   trips: [trip_id, route_id, service_id]                                *)
(*   stt  : [trip_id, stop_id, departure_time]                             *)
(***************************************************************************)
BUFFER_M == 300

Abs(n) == IF n < 0 THEN -n ELSE n

\* gpd.sjoin(buf, gs_stops, predicate="contains")[["station_id","stop_id"]]:
\* a stop on the buffer's boundary is not contained
StationsNearStops(stations_gdf, stops_df) ==
    LET hit == SelectSeq(Cross(stations_gdf, stops_df),
                         LAMBDA p : Abs(p[1].x - p[2].x) < BUFFER_M)
    IN  [k \in DOMAIN hit |->
            [station_id |-> hit[k][1].station_id, stop_id |-> hit[k][2].stop_id]]

PartitionStart(part) == Min({ToDatetime(part.cal[j].start_date) : j \in DOMAIN part.cal})
PartitionEnd(part) == Max({ToDatetime(part.cal[j].end_date) : j \in DOMAIN part.cal})

\* a union of the partitions' ranges instead of their intersection
GtfsDateRangeUnion(gtfs_parts) ==
    <<Min({PartitionStart(gtfs_parts[i]) : i \in DOMAIN gtfs_parts}),
      Max({PartitionEnd(gtfs_parts[i]) : i \in DOMAIN gtfs_parts})>>

\* gtfs_date_range: (max(starts), min(ends))
GtfsDateRange(gtfs_parts) ==
    <<Max({PartitionStart(gtfs_parts[i]) : i \in DOMAIN gtfs_parts}),
      Min({PartitionEnd(gtfs_parts[i]) : i \in DOMAIN gtfs_parts})>>

\* pd.date_range(a, b, freq="D"): empty when b < a
DateRange(a, b) == [k \in 1..(b - a + 1) |-> a + k - 1]

\* part["trips"][part["trips"]["service_id"].isin(active)][["trip_id","route_id"]]
TripsToday(part, t) ==
    SelectSeq(part.trips, LAMBDA r : r.service_id \in ActiveServicesOn(part.cal, part.cald, t))

\* part["stt"].merge(trips_today, on="trip_id", how="inner")
SttToday(part, t) ==
    LET m == SelectSeq(Cross(part.stt, TripsToday(part, t)),
                       LAMBDA p : p[1].trip_id = p[2].trip_id)
    IN  [k \in DOMAIN m |->
            [stop_id |-> m[k][1].stop_id, route_id |-> m[k][2].route_id,
             departure_time |-> m[k][1].departure_time]]

\* the notna() filter followed by the str.match filter
ValidTimes(st) ==
    SelectSeq(SelectSeq(st, LAMBDA r : NotNa(r.departure_time)),
              LAMBDA r : MatchesTime(r.departure_time))

\* str.split(":", expand=True).astype(int) and h[0] raise when no row is left
\* (no column 0) or when rows have different numbers of fields (None cells)
SplitFails(v) ==
    \/ v = <<>>
    \/ \E i, j \in DOMAIN v : NParts(v[i].departure_time) # NParts(v[j].departure_time)

\* stt_today.groupby(["stop_id","hour"]).size().rename("dep_hour").reset_index()
DepPerStopHour(v) ==
    LET keyOf(r) == <<r.stop_id, HourOf(r.departure_time)>>
        keys == SortKeys({keyOf(v[i]) : i \in DOMAIN v})
    IN  [k \in DOMAIN keys |->
            [stop_id |-> keys[k][1], hour |-> keys[k][2],
             dep_hour |-> Cardinality({i \in DOMAIN v : keyOf(v[i]) = keys[k]})]]

\* dep.merge(near_maps[tag], on="stop_id", how="inner")
DepNear(dep, near) ==
    LET m == SelectSeq(Cross(dep, near), LAMBDA p : p[1].stop_id = p[2].stop_id)
    IN  [k \in DOMAIN m |->
            [stop_id |-> m[k][1].stop_id, hour |-> m[k][1].hour,
             dep_hour |-> m[k][1].dep_hour, station_id |-> m[k][2].station_id]]

\* dep.groupby(["station_id","hour"], as_index=False)["dep_hour"].sum(), plus date
AggStationHour(dn, t) ==
    LET keys == SortKeys({<<dn[i].station_id, dn[i].hour>> : i \in DOMAIN dn})
    IN  [k \in DOMAIN keys |->
            [station_id |-> keys[k][1], hour |-> keys[k][2], date |-> t,
             dep |-> SumSeq([i \in DOMAIN dn |->
                        IF <<dn[i].station_id, dn[i].hour>> = keys[k]
                        THEN dn[i].dep_hour ELSE 0])]]

\* the frame one pass of the loop body appends for partition g on day t
FrameOf(part, near, t) ==
    [tag |-> part.tag,
     rows |-> AggStationHour(DepNear(DepPerStopHour(ValidTimes(SttToday(part, t))), near), t)]

ColumnOf(tag) == IF tag = "urb" THEN "dep_hour_urb_300m" ELSE "dep_hour_ext_300m"

RECURSIVE ConcatRows(_)
\* pd.concat(frames, ignore_index=True): the rows of every frame, the column of
\* the other partition NaN
ConcatRows(fs) ==
    IF fs = <<>> THEN <<>>
    ELSE [k \in DOMAIN fs[1].rows |->
            [station_id |-> fs[1].rows[k].station_id,
             date |-> fs[1].rows[k].date,
             hour |-> fs[1].rows[k].hour,
             urb |-> IF fs[1].tag = "urb" THEN Some(fs[1].rows[k].dep) ELSE None,
             ext |-> IF fs[1].tag = "ext" THEN Some(fs[1].rows[k].dep) ELSE None]]
         \o ConcatRows(Tail(fs))

KeyColumns == {"station_id", "hour", "date"}
DepColumns == {"dep_hour_urb_300m", "dep_hour_ext_300m"}

\* line 93: the concatenation, or the empty five-column frame when no frame exists
ConcatFrames(fs) ==
    IF fs = <<>> THEN [cols |-> KeyColumns \cup DepColumns, rows |-> <<>>]
    ELSE [cols |-> KeyColumns \cup {ColumnOf(fs[i].tag) : i \in DOMAIN fs},
          rows |-> ConcatRows(fs)]

\* the concatenation left as it is, one row per partition frame row
GroupSumMissing(rows) == [k \in DOMAIN rows |->
                            [station_id |-> rows[k].station_id, date |-> rows[k].date,
                             hour |-> rows[k].hour, urb |-> OrZero(rows[k].urb),
                             ext |-> OrZero(rows[k].ext)]]

\* feat.groupby(["station_id","date","hour"], as_index=False).agg({urb: "sum", ext: "sum"})
GroupSum(rows) ==
    LET keyOf(r) == <<r.station_id, r.date, r.hour>>
        keys == SortKeys({keyOf(rows[i]) : i \in DOMAIN rows})
    IN  [k \in DOMAIN keys |->
            [station_id |-> keys[k][1], date |-> keys[k][2], hour |-> keys[k][3],
             urb |-> SumSeq([i \in DOMAIN rows |->
                        IF keyOf(rows[i]) = keys[k] THEN OrZero(rows[i].urb) ELSE 0]),
             ext |-> SumSeq([i \in DOMAIN rows |->
                        IF keyOf(rows[i]) = keys[k] THEN OrZero(rows[i].ext) ELSE 0])]]

\* the total taken from the urban column alone
WithTotalUrbOnly(rows) ==
    [k \in DOMAIN rows |->
        [station_id |-> rows[k].station_id, date |-> rows[k].date, hour |-> rows[k].hour,
         dep_hour_urb_300m |-> rows[k].urb, dep_hour_ext_300m |-> rows[k].ext,
         dep_hour_total_300m |-> rows[k].urb]]

\* feat["dep_hour_total_300m"] = feat[[urb, ext]].sum(axis=1)
WithTotal(rows) ==
    [k \in DOMAIN rows |->
        [station_id |-> rows[k].station_id, date |-> rows[k].date, hour |-> rows[k].hour,
         dep_hour_urb_300m |-> rows[k].urb, dep_hour_ext_300m |-> rows[k].ext,
         dep_hour_total_300m |-> rows[k].urb + rows[k].ext]]

(***************************************************************************)
(* scripts/build_datasets.py: _routes_per_stop and build_spatial           *)
(*   Stations and stops lie on one east-west line of EPSG:3857; x is the   *)
(*   easting in metres.  The buffer of a point has a vertex exactly buf    *)
(*   metres east and west of it, so on that line "intersects" is           *)
(*   |dx| <= buf.                                                          *)
(***************************************************************************)
\* stop_times.merge(trips, on='trip_id', how='left'): an unmatched trip_id keeps
\* its row with route_id NaN
StTr(st, tr) ==
    LET RECURSIVE Rows(_)
        Rows(i) ==
            IF i > Len(st) THEN <<>>
            ELSE LET m == SelectSeq(tr, LAMBDA r : r.trip_id = st[i].trip_id)
                 IN  (IF m = <<>>
                      THEN <<[stop_id |-> st[i].stop_id, route_id |-> None]>>
                      ELSE [k \in DOMAIN m |->
                               [stop_id |-> st[i].stop_id, route_id |-> m[k].route_id]])
                     \o Rows(i + 1)
    IN  Rows(1)

\* counting the calling trips instead of the distinct routes
RoutesPerStopTrips(st, tr) ==
    LET ids == SetToSeq({st[i].stop_id : i \in DOMAIN st})
    IN  [k \in DOMAIN ids |->
            [stop_id |-> ids[k],
             n_routes_at_stop |->
                Cardinality({i \in DOMAIN st : st[i].stop_id = ids[k]})]]

\* st_tr.groupby('stop_id')['route_id'].nunique(dropna=True).reset_index()
RoutesPerStop(st, tr) ==
    LET st_tr == StTr(st, tr)
        ids == SetToSeq({st_tr[i].stop_id : i \in DOMAIN st_tr})
    IN  [k \in DOMAIN ids |->
            [stop_id |-> ids[k],
             n_routes_at_stop |->
                Cardinality({st_tr[i].route_id[1] :
                    i \in {j \in DOMAIN st_tr :
                            st_tr[j].stop_id = ids[k] /\ st_tr[j].route_id # None}})]]

\* gpd.sjoin_nearest(gstations, gstops, how='left', distance_col='dist_to_stop_m'):
\* one row per station and stop at the minimal distance (every equidistant stop)
SjoinNearest(stations, stops) ==
    LET RECURSIVE Rows(_)
        Rows(i) ==
            IF i > Len(stations) THEN <<>>
            ELSE LET dmin == Min({Abs(stations[i].x - stops[j].x) : j \in DOMAIN stops})
                     m == SelectSeq(stops, LAMBDA p : Abs(stations[i].x - p.x) = dmin)
                 IN  [k \in DOMAIN m |->
                        [station_id |-> stations[i].station_id, stop_id |-> m[k].stop_id,
                         dist_to_stop_m |-> dmin]]
                     \o Rows(i + 1)
    IN  Rows(1)

\* the left merge of line 121 without its fillna
MergeRoutesNoFill(stops, ras) ==
    [k \in DOMAIN stops |->
        [stop_id |-> stops[k].stop_id, x |-> stops[k].x,
         n_routes_at_stop |->
            IF \E i \in DOMAIN ras : ras[i].stop_id = stops[k].stop_id
            THEN Some(ras[CHOOSE i \in DOMAIN ras : ras[i].stop_id = stops[k].stop_id]
                        .n_routes_at_stop)
            ELSE None]]

\* gstops.merge(routes_at_stop, on='stop_id', how='left').fillna({'n_routes_at_stop': 0})
\* (routes_at_stop has one row per stop_id)
MergeRoutes(stops, ras) ==
    [k \in DOMAIN stops |->
        [stop_id |-> stops[k].stop_id, x |-> stops[k].x,
         n_routes_at_stop |->
            IF \E i \in DOMAIN ras : ras[i].stop_id = stops[k].stop_id
            THEN Some(ras[CHOOSE i \in DOMAIN ras : ras[i].stop_id = stops[k].stop_id]
                        .n_routes_at_stop)
            ELSE Some(0)]]

\* gpd.sjoin(gstations, ring, how='left', predicate='intersects'): a station
\* that meets no buffer keeps one row whose n_routes_at_stop is NaN
SjoinBuffer(stations, ring, buf) ==
    LET RECURSIVE Rows(_)
        Rows(i) ==
            IF i > Len(stations) THEN <<>>
            ELSE LET m == SelectSeq(ring, LAMBDA p : Abs(stations[i].x - p.x) <= buf)
                 IN  (IF m = <<>>
                      THEN <<[station_id |-> stations[i].station_id,
                              n_routes_at_stop |-> None]>>
                      ELSE [k \in DOMAIN m |->
                               [station_id |-> stations[i].station_id,
                                n_routes_at_stop |-> m[k].n_routes_at_stop]])
                     \o Rows(i + 1)
    IN  Rows(1)

\* the aggregate with the routes of one stop only
AggBufferFirst(joined, buf) ==
    LET ids == SetToSeq({joined[i].station_id : i \in DOMAIN joined})
    IN  [k \in DOMAIN ids |->
            [station_id |-> ids[k], buf |-> buf,
             stops_in_buf |-> Cardinality({i \in DOMAIN joined : joined[i].station_id = ids[k]}),
             routes_in_buf |->
                OrZero(joined[CHOOSE i \in DOMAIN joined : joined[i].station_id = ids[k]]
                         .n_routes_at_stop)]]

\* joined.groupby('station_id').agg(stops_in_buf=(.., 'size'), routes_in_buf=(.., 'sum')):
\* size counts the rows of the group, NaN or not; sum skips NaN
AggBuffer(joined, buf) ==
    LET ids == SetToSeq({joined[i].station_id : i \in DOMAIN joined})
    IN  [k \in DOMAIN ids |->
            [station_id |-> ids[k], buf |-> buf,
             stops_in_buf |-> Cardinality({i \in DOMAIN joined : joined[i].station_id = ids[k]}),
             routes_in_buf |->
                SumSeq([i \in DOMAIN joined |->
                    IF joined[i].station_id = ids[k]
                    THEN OrZero(joined[i].n_routes_at_stop) ELSE 0])]]

buffer_m == <<300, 500>>

\* the cell of column c ("stops_in_buf" / "routes_in_buf") that the left merge
\* acc.merge(r, on='station_id', how='left') gives station sid: NaN when r has no row
Lookup(r, sid, c) ==
    IF \E i \in DOMAIN r : r[i].station_id = sid
    THEN Some(r[CHOOSE i \in DOMAIN r : r[i].station_id = sid][c])
    ELSE None

\* lines 139-142: nearest[[...]] left-merged with every per-radius result
Acc(near, res) ==
    [k \in DOMAIN near |->
        [station_id |-> near[k].station_id, stop_id |-> near[k].stop_id,
         dist_to_stop_m |-> near[k].dist_to_stop_m,
         stops_m |-> [b \in DOMAIN res |-> Lookup(res[b], near[k].station_id, "stops_in_buf")],
         routes_m |-> [b \in DOMAIN res |-> Lookup(res[b], near[k].station_id, "routes_in_buf")]]]

\* lines 145-151: gstations.merge(acc, on='station_id', how='left'), then
\* fillna(0).astype(int) on the count columns
Gacc(stations, acc) ==
    LET RECURSIVE Rows(_)
        Rows(i) ==
            IF i > Len(stations) THEN <<>>
            ELSE LET m == SelectSeq(acc, LAMBDA a : a.station_id = stations[i].station_id)
                 IN  [k \in DOMAIN m |->
                        [station_id |-> m[k].station_id, stop_id |-> m[k].stop_id,
                         dist_to_stop_m |-> m[k].dist_to_stop_m,
                         stops_m |-> [b \in DOMAIN m[k].stops_m |-> OrZero(m[k].stops_m[b])],
                         routes_m |-> [b \in DOMAIN m[k].routes_m |-> OrZero(m[k].routes_m[b])]]]
                     \o Rows(i + 1)
    IN  Rows(1)

(***************************************************************************)
(* SpecSpatial: build_spatial on bounded station / stop layers             *)
(***************************************************************************)
MaxStations == 2
MaxStops == 2

StationXs == {0, 1000, 5000}
StopXs == {-300, 300, 400}

\* trips.txt: trips 1 and 2 run route 10, trip 3 runs route 11; trip 5 is unknown
SpatialTrips ==
    <<[trip_id |-> 1, route_id |-> Some(10)],
      [trip_id |-> 2, route_id |-> Some(10)],
      [trip_id |-> 3, route_id |-> Some(11)]>>

\* the trips calling at one stop
StopPatterns == {<<>>, <<1, 2>>, <<1, 3, 5>>}

\* the cleaned station layer: station_id 1..n, no two stations at the same place
StationLayers ==
    {[i \in 1..n |-> [station_id |-> i, x |-> xs[i]]] :
        n \in 1..MaxStations, xs \in [1..MaxStations -> StationXs]}

DistinctPlaces(layer) == \A i, j \in DOMAIN layer : i # j => layer[i].x # layer[j].x

StopLayers ==
    {[i \in 1..n |-> [stop_id |-> i, x |-> xs[i]]] :
        n \in 1..MaxStops, xs \in [1..MaxStops -> StopXs]}

RECURSIVE StopTimesOf(_, _)
\* stop_times.txt: the rows of stop i are the trips of its pattern
StopTimesOf(pat, i) ==
    IF i > Len(pat) THEN <<>>
    ELSE [k \in DOMAIN pat[i] |-> [stop_id |-> i, trip_id |-> pat[i][k]]]
         \o StopTimesOf(pat, i + 1)

SpatialInit ==
    /\ gstations \in {l \in StationLayers : DistinctPlaces(l)}
    /\ gstops \in StopLayers
    /\ \E pat \in [1..MaxStops -> StopPatterns] :
          stop_times = StopTimesOf(SubSeq(pat, 1, Len(gstops)), 1)
    /\ trips = SpatialTrips
    /\ nearest = <<>>
    /\ routes_at_stop = <<>>
    /\ gstops_routes = <<>>
    /\ rings = <<>>
    /\ results = <<>>
    /\ accessibility = None
    /\ spc = "start"

SpatialIdle ==
    /\ gstations = <<>>
    /\ gstops = <<>>
    /\ stop_times = <<>>
    /\ trips = <<>>
    /\ nearest = <<>>
    /\ routes_at_stop = <<>>
    /\ gstops_routes = <<>>
    /\ rings = <<>>
    /\ results = <<>>
    /\ accessibility = None
    /\ spc = "idle"

\* lines 116-121: nearest stop, route counts, stops with their route count
Precompute ==
    /\ spc = "start"
    /\ nearest' = SjoinNearest(gstations, gstops)
    /\ routes_at_stop' = RoutesPerStop(stop_times, trips)
    /\ gstops_routes' = MergeRoutes(gstops, RoutesPerStop(stop_times, trips))
    /\ spc' = "buffers"
    /\ UNCHANGED <<gstations, gstops, stop_times, trips, rings, results, accessibility,
                   notSpatialVars>>

\* lines 125-137: one pass of the loop over buffer_m
BufferPass ==
    /\ spc = "buffers"
    /\ Len(results) < Len(buffer_m)
    /\ LET buf == buffer_m[Len(results) + 1]
           ring == gstops_routes
       IN  /\ rings' = Append(rings, ring)
           /\ results' = Append(results, AggBuffer(SjoinBuffer(gstations, ring, buf), buf))
    /\ UNCHANGED <<gstations, gstops, stop_times, trips, nearest, routes_at_stop,
                   gstops_routes, accessibility, spc, notSpatialVars>>

\* lines 139-165: merge, fill, write
WriteAccessibility ==
    /\ spc = "buffers"
    /\ Len(results) = Len(buffer_m)
    /\ accessibility' = Some(Gacc(gstations, Acc(nearest, results)))
    /\ spc' = "done"
    /\ UNCHANGED <<gstations, gstops, stop_times, trips, nearest, routes_at_stop,
                   gstops_routes, rings, results, notSpatialVars>>

SpatialNext ==
    \/ Precompute
    \/ BufferPass
    \/ WriteAccessibility

(***************************************************************************)
(* scripts/analysis_suite.py: run_maps, step 3 (intermodality index)       *)
(*   g: [cols, rows]; cols[b] is the set of the columns "stops", "routes", *)
(*   "idx" (stops_<r>m, routes_<r>m, idx_intermodal_<r>m) present for the  *)
(*   b-th radius; a row holds, per radius, [stops, routes, idx2], each a   *)
(*   nullable cell, idx2 being twice the index (the index is a multiple of *)
(*   0.5).  The later steps of run_maps (ranking table, map) read g only.  *)
(***************************************************************************)
MapRadii == <<300, 500>>

\* twice (stops + 1.0 * routes): the routes given the weight of a stop
TwiceIndexFullWeight(stops, routes) == 2 * OrZero(stops) + 2 * OrZero(routes)

\* twice (g[s_col].fillna(0) + 0.5 * g[r_col].fillna(0))
TwiceIndex(stops, routes) == 2 * OrZero(stops) + OrZero(routes)

\* line 283
IndexMissing(frame, b) ==
    /\ "stops" \in frame.cols[b]
    /\ "routes" \in frame.cols[b]
    /\ "idx" \notin frame.cols[b]

\* line 284: the new column of radius b
WithIndex(frame, b) ==
    [cols |-> [frame.cols EXCEPT ![b] = @ \cup {"idx"}],
     rows |-> [k \in DOMAIN frame.rows |->
                 [frame.rows[k] EXCEPT ![b].idx2 =
                     Some(TwiceIndex(frame.rows[k][b].stops, frame.rows[k][b].routes))]]]

(***************************************************************************)
(* SpecMaps: run_maps on bounded accessibility files                       *)
(***************************************************************************)
MaxMapRows == 2

MapColumnSets == {{"stops", "routes"}, {"stops", "routes", "idx"}, {"stops"}}

\* what one station holds for one radius: as build_spatial writes it (no index),
\* with an index already there that fits or does not fit, with a null count
MapCells ==
    { [stops |-> Some(1), routes |-> Some(2), idx2 |-> Some(4)],
      [stops |-> Some(1), routes |-> Some(2), idx2 |-> Some(7)],
      [stops |-> None,    routes |-> Some(3), idx2 |-> Some(3)],
      [stops |-> Some(0), routes |-> Some(0), idx2 |-> None] }

Masked(cell, cs) ==
    [stops  |-> IF "stops" \in cs THEN cell.stops ELSE None,
     routes |-> IF "routes" \in cs THEN cell.routes ELSE None,
     idx2   |-> IF "idx" \in cs THEN cell.idx2 ELSE None]

MapFiles ==
    {[cols |-> cs,
      rows |-> [k \in 1..n |-> [b \in DOMAIN MapRadii |-> Masked(cells[k][b], cs[b])]]] :
        cs \in [DOMAIN MapRadii -> MapColumnSets],
        n \in 1..MaxMapRows,
        cells \in [1..MaxMapRows -> [DOMAIN MapRadii -> MapCells]]}

MapsInit ==
    /\ gfile \in MapFiles
    /\ g = [cols |-> <<>>, rows |-> <<>>]
    /\ mi = 1
    /\ mpc = "read"

MapsIdle ==
    /\ gfile = [cols |-> <<>>, rows |-> <<>>]
    /\ g = [cols |-> <<>>, rows |-> <<>>]
    /\ mi = 1
    /\ mpc = "idle"

\* line 276: g = gpd.read_file(gpath)
ReadFile ==
    /\ mpc = "read"
    /\ g' = gfile
    /\ mpc' = "index"
    /\ UNCHANGED <<gfile, mi, notMapsVars>>

\* lines 281-284, the index of radius mi is missing and is computed
ComputeIndex ==
    /\ mpc = "index"
    /\ mi <= Len(MapRadii)
    /\ IndexMissing(g, mi)
    /\ g' = WithIndex(g, mi)
    /\ mi' = mi + 1
    /\ UNCHANGED <<gfile, mpc, notMapsVars>>

\* lines 281-283, the condition is false: the frame is left as it is
KeepColumns ==
    /\ mpc = "index"
    /\ mi <= Len(MapRadii)
    /\ ~IndexMissing(g, mi)
    /\ mi' = mi + 1
    /\ UNCHANGED <<gfile, g, mpc, notMapsVars>>

\* the loop is over
IndexDone ==
    /\ mpc = "index"
    /\ mi > Len(MapRadii)
    /\ mpc' = "done"
    /\ UNCHANGED <<gfile, g, mi, notMapsVars>>

MapsNext ==
    \/ ReadFile
    \/ ComputeIndex
    \/ KeepColumns
    \/ IndexDone

(***************************************************************************)
(* src/etl/bicincitta_fetch_json.py: the live-status fetcher               *)
(*   A record of the payload is the list of its fields after split("§");   *)
(*   a numeric field is Some(n) when float() / int() accepts it and None   *)
(*   when it raises.  An element of the payload that is not a string is    *)
(*   the record NotAString.                                                *)
(***************************************************************************)
NotAString == [str |-> FALSE, parts |-> <<>>]

\* parse_station_record(rec_str): None, or Some(row)
ParseStationRecord(rec) ==
    IF Len(rec.parts) < 7 THEN None
    ELSE IF \E n \in {2, 3, 6, 7} : rec.parts[n] = None THEN None
    ELSE Some([station_id |-> rec.parts[1][1], bikes |-> rec.parts[6][1],
               docks |-> rec.parts[7][1]])

RECURSIVE ParseRows(_)
\* lines 67-74: the rows of the string elements that parse
ParseRows(items) ==
    IF items = <<>> THEN <<>>
    ELSE (IF items[1].str /\ ParseStationRecord(items[1]) # None
          THEN <<ParseStationRecord(items[1])[1]>> ELSE <<>>)
         \o ParseRows(Tail(items))

\* every element parsed, the first one included
RowsOfWholePayload(resp) ==
    IF ~resp.list \/ resp.d = <<>> THEN <<>> ELSE ParseRows(resp.d)

\* lines 62-74 of fetch_once: the rows of a JSON answer [list, d]; element 0
\* of the payload is skipped
RowsOf(resp) ==
    IF ~resp.list \/ resp.d = <<>> THEN <<>> ELSE ParseRows(Tail(resp.d))

\* line 81 of save_snapshot: the line written for one row with the stamp c
SnapshotLine(r, c) ==
    [station_id |-> r.station_id, bikes |-> r.bikes, docks |-> r.docks, timestamp |-> c]

\* lines 77-82 of save_snapshot: the file once every row is written
Snapshot(rows, c) ==
    [name |-> c, rows |-> [k \in DOMAIN rows |-> SnapshotLine(rows[k], c)]]

\* line 79, out.open("w"): the file is created, or truncated when it exists
OpenW(files, c) ==
    {f \in files : f.name # c} \cup {[name |-> c, rows |-> <<>>]}

\* the content of the file named c
FileRows(files, c) == (CHOOSE f \in files : f.name = c).rows

\* the file named c once the file object has passed it the lines
WriteLines(files, c, lines) ==
    {f \in files : f.name # c} \cup {[name |-> c, rows |-> FileRows(files, c) \o lines]}

\* line 79, open("w") in text mode: the file object passes on the lines it
\* holds when they reach this number of bytes
CHUNK_SIZE == 8192

\* line 82: the bytes of json.dumps(r) + "\n" for a parsed record of the
\* payloads below (one-digit station_id, name, bikes and docks)
LineBytes(line) == 115

\* lines 93-94 and 99: where main goes at the end of a cycle
CycleEnd == IF once THEN "exited" ELSE "sleep"

\* ---- inputs ----
MaxClock == 4
MaxPayload == 3

GoodRecord(id, bikes) ==
    [str |-> TRUE,
     parts |-> <<Some(id), Some(46), Some(11), Some(0), Some(0), Some(bikes), Some(3)>>]
ShortRecord == [str |-> TRUE, parts |-> <<Some(1), Some(46), Some(11)>>]
BadIntRecord ==
    [str |-> TRUE,
     parts |-> <<Some(2), Some(46), Some(11), Some(0), Some(0), None, Some(3)>>]
ImagesUrl == [str |-> TRUE, parts |-> <<Some(0)>>]

PayloadItems == {GoodRecord(1, 5), GoodRecord(2, 0), ShortRecord, BadIntRecord, NotAString}

\* what one fetch_once meets: a failure of the GET or POST, an error status,
\* a body that is not JSON, or a JSON answer
Responses ==
    {[kind |-> k, list |-> FALSE, d |-> <<>>] : k \in {"connection", "http", "nojson", "ok"}}
    \cup {[kind |-> "ok", list |-> TRUE, d |-> <<>>]}
    \cup {[kind |-> "ok", list |-> TRUE, d |-> <<ImagesUrl>> \o p] :
              p \in SeqsUpTo(PayloadItems, MaxPayload - 1)}

Failed(resp) == resp.kind # "ok"

\* seconds a fetch_once takes, rounded down
FetchSeconds == {0, 1}

\* how far the local clock is set back between two readings, at most
MaxSetBack == 1

\* the local times line 77 can read after t seconds: the local clock has
\* followed the script, or has been set back
LocalTimes(t) == {c \in 0 .. t : t - c <= MaxSetBack}

FetchInit ==
    /\ once \in BOOLEAN
    /\ FREQ_SEC \in {0, 2}
    /\ now = 0
    /\ fts = 0
    /\ status = {}
    /\ fpc = "fetch"
    /\ frows = <<>>
    /\ fbuf = <<>>
    /\ sess = "open"

FetchIdle ==
    /\ once = TRUE
    /\ FREQ_SEC = 0
    /\ now = 0
    /\ fts = 0
    /\ status = {}
    /\ fpc = "idle"
    /\ frows = <<>>
    /\ fbuf = <<>>
    /\ sess = "closed"

\* lines 89 and 97 when fetch_once raises: there is no except clause, the
\* finally of lines 100-101 closes the session and the exception leaves the
\* script
FetchRaises ==
    /\ fpc = "fetch"
    /\ \E resp \in Responses, dt \in FetchSeconds :
          /\ Failed(resp)
          /\ now + dt <= MaxClock
          /\ now' = now + dt
    /\ fpc' = "raised"
    /\ sess' = "closed"
    /\ UNCHANGED <<once, FREQ_SEC, fts, status, frows, fbuf, notFetchVars>>

\* lines 89-90 and 97-98: fetch_once returns; without rows nothing is saved
FetchOnce ==
    /\ fpc = "fetch"
    /\ \E resp \in Responses, dt \in FetchSeconds :
          /\ ~Failed(resp)
          /\ now + dt <= MaxClock
          /\ now' = now + dt
          /\ frows' = RowsOf(resp)
          /\ fpc' = IF RowsOf(resp) = <<>> THEN CycleEnd ELSE "save"
          /\ sess' = IF RowsOf(resp) = <<>> /\ once THEN "closed" ELSE "open"
    /\ UNCHANGED <<once, FREQ_SEC, fts, status, fbuf, notFetchVars>>

\* save_snapshot, lines 77-79: the name is the local wall-clock time at a
\* resolution of one second, and the file is opened for writing.  Local time
\* is not tied to the seconds the script has run: it repeats a second within
\* one second, and it goes back when the clock is set back
OpenSnapshot ==
    /\ fpc = "save"
    /\ \E c \in LocalTimes(now) :
          /\ fts' = c
          /\ status' = OpenW(status, c)
    /\ fpc' = "write"
    /\ UNCHANGED <<once, FREQ_SEC, now, frows, fbuf, sess, notFetchVars>>

\* save_snapshot, lines 80-82: f.write takes the next line and the file
\* object holds it.  The held lines go to the disk together, at a boundary
\* that the io implementation of the interpreter sets: either before a line
\* that would bring them over CHUNK_SIZE bytes and again once they reach
\* CHUNK_SIZE bytes, or right after the line that brings them over CHUNK_SIZE
\* bytes.  The file on disk grows by whole lines, many at a time, and a
\* snapshot shorter than CHUNK_SIZE stays empty until line 83
WriteRow ==
    /\ fpc = "write"
    /\ Len(FileRows(status, fts)) + Len(fbuf) < Len(frows)
    /\ \E before \in BOOLEAN :
          LET line == SnapshotLine(frows[Len(FileRows(status, fts)) + Len(fbuf) + 1], fts)
              bytes(ls) == SumSeq([k \in DOMAIN ls |-> LineBytes(ls[k])])
              over == before /\ fbuf # <<>> /\ bytes(fbuf) + LineBytes(line) > CHUNK_SIZE
              held == IF over THEN <<line>> ELSE Append(fbuf, line)
              full == IF before THEN bytes(held) >= CHUNK_SIZE
                                ELSE bytes(held) > CHUNK_SIZE
          IN  /\ status' = WriteLines(status, fts,
                                      (IF over THEN fbuf ELSE <<>>)
                                          \o (IF full THEN held ELSE <<>>))
              /\ fbuf' = IF full THEN <<>> ELSE held
    /\ UNCHANGED <<once, FREQ_SEC, now, fts, fpc, frows, sess, notFetchVars>>

\* save_snapshot, line 83: every row is taken, the with-block ends: the lines
\* the file object holds go to the disk and the file is closed
CloseSnapshot ==
    /\ fpc = "write"
    /\ Len(FileRows(status, fts)) + Len(fbuf) = Len(frows)
    /\ status' = WriteLines(status, fts, fbuf)
    /\ fbuf' = <<>>
    /\ fpc' = CycleEnd
    /\ sess' = IF once THEN "closed" ELSE "open"
    /\ UNCHANGED <<once, FREQ_SEC, now, fts, frows, notFetchVars>>

\* line 96: time.sleep(FREQ_SEC)
Sleep ==
    /\ fpc = "sleep"
    /\ now + FREQ_SEC <= MaxClock
    /\ now' = now + FREQ_SEC
    /\ fpc' = "fetch"
    /\ UNCHANGED <<once, FREQ_SEC, fts, status, frows, fbuf, sess, notFetchVars>>

FetchNext ==
    \/ FetchRaises
    \/ FetchOnce
    \/ OpenSnapshot
    \/ WriteRow
    \/ CloseSnapshot
    \/ Sleep

(***************************************************************************)
(* src/etl/merge_hourly_features.py                                        *)
(***************************************************************************)
\* left.merge(right, on=["station_id","hour"], how="left"): for every left
\* row, in order, one row per right row with the same station_id and hour, or
\* one row with the right columns missing; the column date, present on both
\* sides and not a key, comes out as date_x and date_y
MergeOnStationHour(left, right) ==
    LET matches(l) == SelectSeq(right, LAMBDA r : r.station_id = l.station_id
                                                  /\ r.hour = l.hour)
        rowsOf(l) ==
            IF matches(l) = <<>>
            THEN <<[station_id |-> l.station_id, hour |-> l.hour, date_x |-> l.date,
                    trips_hour |-> l.trips_hour, date_y |-> None,
                    dep_hour_total_300m |-> None]>>
            ELSE [k \in DOMAIN matches(l) |->
                    [station_id |-> l.station_id, hour |-> l.hour, date_x |-> l.date,
                     trips_hour |-> l.trips_hour, date_y |-> Some(matches(l)[k].date),
                     dep_hour_total_300m |-> Some(matches(l)[k].dep_hour_total_300m)]]
        RECURSIVE all(_)
        all(ls) == IF ls = <<>> THEN <<>> ELSE rowsOf(ls[1]) \o all(Tail(ls))
    IN  all(left)

\* .merge(S, on="station_id", how="left")
MergeStationIndex(left, right) ==
    LET matches(l) == SelectSeq(right, LAMBDA r : r.station_id = l.station_id)
        rowsOf(l) ==
            IF matches(l) = <<>>
            THEN <<[row |-> l, zone |-> None]>>
            ELSE [k \in DOMAIN matches(l) |-> [row |-> l, zone |-> Some(matches(l)[k].zone)]]
        RECURSIVE all(_)
        all(ls) == IF ls = <<>> THEN <<>> ELSE rowsOf(ls[1]) \o all(Tail(ls))
    IN  all(left)

\* ---- inputs: tables with a unique (station_id, date, hour) key ----
MaxHRows == 2
MaxXgRows == 2

MergeKeys == {<<sid, dt, hr>> : sid \in {1, 2}, dt \in {20250301, 20250302}, hr \in {8, 9}}

KeyedTables(n) ==
    {t \in SeqsUpTo(MergeKeys, n) : \A i, j \in DOMAIN t : i < j => LexLess(t[i], t[j])}

MergeInit ==
    /\ \E t \in KeyedTables(MaxHRows) :
          H = [k \in DOMAIN t |->
                 [station_id |-> t[k][1], date |-> ToDatetime(t[k][2]), hour |-> t[k][3],
                  trips_hour |-> 1]]
    /\ \E t \in KeyedTables(MaxXgRows) :
          Xg = [k \in DOMAIN t |->
                  [station_id |-> t[k][1], date |-> ToDatetime(t[k][2]), hour |-> t[k][3],
                   dep_hour_total_300m |-> 2]]
    /\ XgObject \in {b \in BOOLEAN : b => Xg = <<>>}
    /\ Sidx \in {<<[station_id |-> 1, zone |-> 1]>>,
                 <<[station_id |-> 1, zone |-> 1], [station_id |-> 2, zone |-> 2]>>}
    /\ out = None
    /\ mgpc = "read"

MergeIdle ==
    /\ H = <<>>
    /\ Xg = <<>>
    /\ XgObject = FALSE
    /\ Sidx = <<>>
    /\ out = None
    /\ mgpc = "idle"

\* line 8, H.merge(Xg, on=["station_id","hour"]): the key columns are
\* compared by type when both tables have rows or both have none.  A
\* station_hour.parquet without rows has a float hour (snapshots_to_trips.py,
\* line 31, on timestamps that are all NaT); a gtfs_station_hour.parquet
\* without rows has an integer hour, or an object hour when it comes from the
\* frame of gtfs_to_station_hour.py, line 93: float against object raises
MergeKeysDiffer == H = <<>> /\ Xg = <<>> /\ XgObject

\* lines 5-10: read the three tables, merge, write
MergeHourly ==
    /\ mgpc = "read"
    /\ ~MergeKeysDiffer
    /\ out' = Some(MergeStationIndex(MergeOnStationHour(H, Xg), Sidx))
    /\ mgpc' = "done"
    /\ UNCHANGED <<H, Xg, XgObject, Sidx, notMergeVars>>

\* lines 5-8: the merge raises ValueError, nothing is written
MergeHourlyRaises ==
    /\ mgpc = "read"
    /\ MergeKeysDiffer
    /\ mgpc' = "ValueError"
    /\ UNCHANGED <<H, Xg, XgObject, Sidx, out, notMergeVars>>

MergeNext ==
    \/ MergeHourly
    \/ MergeHourlyRaises


(***************************************************************************)
(* src/etl/04_covariates_station_day.py, 07_station_day_features_2022.py   *)
(* and 09_join_weather.py                                                  *)
(***************************************************************************)
\* the first hour's value of each station-day, in place of the sum
AggDayFirstHour(rows) ==
    LET keys == SortKeys({<<rows[i].station_id, rows[i].date>> : i \in DOMAIN rows})
        first(key) == rows[CHOOSE i \in DOMAIN rows :
                            /\ <<rows[i].station_id, rows[i].date>> = key
                            /\ \A j \in 1..(i - 1) : <<rows[j].station_id, rows[j].date>> # key]
    IN  [k \in DOMAIN keys |->
            [station_id |-> keys[k][1], date |-> keys[k][2],
             dep_urb_day |-> first(keys[k]).dep_hour_urb_300m,
             dep_ext_day |-> first(keys[k]).dep_hour_ext_300m,
             dep_tot_day |-> first(keys[k]).dep_hour_total_300m]]

\* gtfsH.groupby(["station_id","date"], as_index=False).agg(dep_urb_day=(urb, "sum"),
\*     dep_ext_day=(ext, "sum"), dep_tot_day=(total, "sum"))
AggDay(rows) ==
    LET keyOf(r) == <<r.station_id, r.date>>
        keys == SortKeys({keyOf(rows[i]) : i \in DOMAIN rows})
        sumOf(key, f(_)) ==
            SumSeq([i \in DOMAIN rows |-> IF keyOf(rows[i]) = key THEN f(rows[i]) ELSE 0])
    IN  [k \in DOMAIN keys |->
            [station_id |-> keys[k][1], date |-> keys[k][2],
             dep_urb_day |-> sumOf(keys[k], LAMBDA r : r.dep_hour_urb_300m),
             dep_ext_day |-> sumOf(keys[k], LAMBDA r : r.dep_hour_ext_300m),
             dep_tot_day |-> sumOf(keys[k], LAMBDA r : r.dep_hour_total_300m)]]

RECURSIVE DropDuplicates(_)
\* Series.drop_duplicates(): the first occurrence of each value, in order
DropDuplicates(q) ==
    IF q = <<>> THEN <<>>
    ELSE LET init == DropDuplicates(SubSeq(q, 1, Len(q) - 1))
         IN  IF q[Len(q)] \in Range(init) THEN init ELSE Append(init, q[Len(q)])

\* the value of one column in the row of table t with the given key, as a
\* nullable cell (left merge)
LeftValue(t, match(_), f(_)) ==
    IF \E i \in DOMAIN t : match(t[i])
    THEN Some(f(t[CHOOSE i \in DOMAIN t : match(t[i])]))
    ELSE None

\* the covariates with an inner merge on the daily aggregate: only the
\* station-days that have departures
CovariatesInnerMerge(hourly, stations, mob) ==
    LET gtfsD == AggDay(hourly)
        kept == SelectSeq(gtfsD, LAMBDA r : \E i \in DOMAIN stations :
                                               stations[i].station_id = r.station_id)
    IN  [k \in DOMAIN kept |->
            [date |-> kept[k].date, station_id |-> kept[k].station_id,
             dep_urb_day |-> Some(kept[k].dep_urb_day),
             dep_ext_day |-> Some(kept[k].dep_ext_day),
             dep_tot_day |-> Some(kept[k].dep_tot_day),
             gmr_transit |-> LeftValue(mob, LAMBDA r : r.date = kept[k].date,
                                       LAMBDA r : r.gmr_transit)]]

\* 04, lines 15-18: the grid dates x stations, left-merged with the daily
\* aggregate and with gmr
Covariates(hourly, stations, mob) ==
    LET gtfsD == AggDay(hourly)
        days == DropDuplicates([k \in DOMAIN gtfsD |-> gtfsD[k].date])
        grid == Cross(days, stations)
        hit(p, r) == r.station_id = p[2].station_id /\ r.date = p[1]
    IN  [k \in DOMAIN grid |->
            [date |-> grid[k][1], station_id |-> grid[k][2].station_id,
             dep_urb_day |-> LeftValue(gtfsD, LAMBDA r : hit(grid[k], r), LAMBDA r : r.dep_urb_day),
             dep_ext_day |-> LeftValue(gtfsD, LAMBDA r : hit(grid[k], r), LAMBDA r : r.dep_ext_day),
             dep_tot_day |-> LeftValue(gtfsD, LAMBDA r : hit(grid[k], r), LAMBDA r : r.dep_tot_day),
             gmr_transit |-> LeftValue(mob, LAMBDA r : r.date = grid[k][1],
                                       LAMBDA r : r.gmr_transit)]]

\* math.log, in hundredths, of the capacities the model uses
LogCenti(x) == CASE x = 1 -> 0 [] x = 10 -> 230 [] x = 20 -> 300

\* column names are lists of parts, so that a merge suffix can be appended
FeatureColumns ==
    <<<<"station_id">>, <<"date">>, <<"dep_urb_day">>, <<"dep_ext_day">>, <<"dep_tot_day">>,
      <<"gmr_transit">>, <<"capacity">>, <<"zone">>, <<"dow">>, <<"offset">>>>

\* 07, lines 11-31: the frame df, as [cols, rows] with one list of cells per row
Features2022(hourly, mob, index) ==
    LET lo == Min({mob[i].date : i \in DOMAIN mob})
        hi == Max({mob[i].date : i \in DOMAIN mob})
        agg == AggDay(SelectSeq(hourly, LAMBDA r : r.date >= lo /\ r.date <= hi))
        stations == DropDuplicates([k \in DOMAIN index |-> index[k].station_id])
        grid == SelectSeq(Cross(stations, DateRange(lo, hi)),
                          LAMBDA p : \E i \in DOMAIN mob : mob[i].date = p[2])
        hit(p, r) == r.station_id = p[1] /\ r.date = p[2]
        cap(p) == LET c == LeftValue(index, LAMBDA r : r.station_id = p[1],
                                     LAMBDA r : r.capacity)[1]
                  IN  IF c = None THEN 1 ELSE Max({c[1], 1})
    IN  [cols |-> FeatureColumns,
         rows |-> [k \in DOMAIN grid |->
            <<Some(grid[k][1]), Some(grid[k][2]),
              LeftValue(agg, LAMBDA r : hit(grid[k], r), LAMBDA r : r.dep_urb_day),
              LeftValue(agg, LAMBDA r : hit(grid[k], r), LAMBDA r : r.dep_ext_day),
              LeftValue(agg, LAMBDA r : hit(grid[k], r), LAMBDA r : r.dep_tot_day),
              LeftValue(mob, LAMBDA r : r.date = grid[k][2], LAMBDA r : r.gmr_transit),
              LeftValue(index, LAMBDA r : r.station_id = grid[k][1],
                        LAMBDA r : r.capacity)[1],
              LeftValue(index, LAMBDA r : r.station_id = grid[k][1], LAMBDA r : r.zone),
              Some(Weekday(grid[k][2])),
              Some(LogCenti(cap(grid[k])))>>]]

WeatherColumns == <<<<"date">>, <<"tmax">>, <<"prcp">>>>

\* position of a column in a frame
ColumnIndex(cols, name) == CHOOSE i \in DOMAIN cols : cols[i] = name

\* the column names of df.merge(wx, on="date", how="left"): a name present on
\* both sides, the key apart, gets the suffix _x on the left and _y on the right
MergedColumns(left, right) ==
    LET both == (Range(left) \cap Range(right)) \ {<<"date">>}
        rest == SelectSeq(right, LAMBDA c : c # <<"date">>)
    IN  [i \in DOMAIN left |-> IF left[i] \in both THEN left[i] \o <<"_x">> ELSE left[i]]
        \o [i \in DOMAIN rest |-> IF rest[i] \in both THEN rest[i] \o <<"_y">> ELSE rest[i]]

\* the merge raises (or the frame cannot be written) when the suffixes
\* produce a column name twice
MergeRaises(left, right) ==
    LET c == MergedColumns(left, right)
    IN  \E i, j \in DOMAIN c : i # j /\ c[i] = c[j]

\* 09, line 6: df.merge(wx, on="date", how="left"), the dates of wx unique
JoinWeatherFrame(frame, weather) ==
    [cols |-> MergedColumns(frame.cols, WeatherColumns),
     rows |-> [k \in DOMAIN frame.rows |->
                 frame.rows[k]
                 \o <<LeftValue(weather,
                                LAMBDA r : Some(r.date)
                                    = frame.rows[k][ColumnIndex(frame.cols, <<"date">>)],
                                LAMBDA r : r.tmax),
                      LeftValue(weather,
                                LAMBDA r : Some(r.date)
                                    = frame.rows[k][ColumnIndex(frame.cols, <<"date">>)],
                                LAMBDA r : r.prcp)>>]]

\* ---- inputs ----
MaxHourRows == 2

DailyDays == <<ToDatetime(20250301), ToDatetime(20250302), ToDatetime(20250303)>>

\* rows of an hourly table as gtfs_to_station_hour.py writes them: the total
\* is the sum of the two partition columns
HourlyRows ==
    {[station_id |-> sid, date |-> DailyDays[n], hour |-> c[1],
      dep_hour_urb_300m |-> c[2], dep_hour_ext_300m |-> c[3],
      dep_hour_total_300m |-> c[2] + c[3]] :
        sid \in {1, 2}, n \in {1, 2}, c \in {<<8, 2, 0>>, <<8, 1, 3>>, <<25, 1, 3>>}}

KeyOfHourly(r) == <<r.station_id, r.date, r.hour>>

\* (station_id, date, hour) unique, in key order
HourlyTables ==
    {t \in SeqsUpTo(HourlyRows, MaxHourRows) :
        \A i, j \in DOMAIN t : i < j => LexLess(KeyOfHourly(t[i]), KeyOfHourly(t[j]))}

GmrTables ==
    {<<[date |-> DailyDays[1], gmr_transit |-> 5]>>,
     <<[date |-> DailyDays[1], gmr_transit |-> 5], [date |-> DailyDays[2], gmr_transit |-> 7]>>,
     <<[date |-> DailyDays[2], gmr_transit |-> 7], [date |-> DailyDays[3], gmr_transit |-> 9]>>}

StationIndexes ==
    {<<[station_id |-> 1, capacity |-> Some(10), zone |-> 1]>>,
     <<[station_id |-> 1, capacity |-> Some(10), zone |-> 1],
       [station_id |-> 2, capacity |-> None, zone |-> 2]>>}

WeatherTables ==
    {<<[date |-> DailyDays[1], tmax |-> 12, prcp |-> 0],
       [date |-> DailyDays[2], tmax |-> 15, prcp |-> 4]>>}

DailyInit ==
    /\ gtfsH \in HourlyTables
    /\ gmr \in GmrTables
    /\ stidx \in StationIndexes
    /\ wx \in WeatherTables
    /\ cov = None
    /\ sdf = None
    /\ jpc = "absent"

DailyIdle ==
    /\ gtfsH = <<>>
    /\ gmr = <<>>
    /\ stidx = <<>>
    /\ wx = <<>>
    /\ cov = None
    /\ sdf = None
    /\ jpc = "idle"

\* 04_covariates_station_day.py
CovariatesStationDay ==
    /\ jpc # "idle"
    /\ cov' = Some(Covariates(gtfsH, stidx, gmr))
    /\ UNCHANGED <<gtfsH, gmr, stidx, wx, sdf, jpc, notDailyVars>>

\* 07_station_day_features_2022.py
StationDayFeatures2022 ==
    /\ jpc # "idle"
    /\ sdf' = Some(Features2022(gtfsH, gmr, stidx))
    /\ jpc' = "fresh"
    /\ UNCHANGED <<gtfsH, gmr, stidx, wx, cov, notDailyVars>>

\* 09_join_weather.py: reads the features file, merges, writes it back
JoinWeather ==
    /\ jpc \in {"fresh", "joined", "rejoined"}
    /\ ~MergeRaises(sdf[1].cols, WeatherColumns)
    /\ sdf' = Some(JoinWeatherFrame(sdf[1], wx))
    /\ jpc' = IF jpc = "fresh" THEN "joined" ELSE "rejoined"
    /\ UNCHANGED <<gtfsH, gmr, stidx, wx, cov, notDailyVars>>

\* 09_join_weather.py raises: the features file is missing, or the merged
\* frame would hold a column name twice; the file is left as it is
JoinWeatherRaises ==
    /\ \/ jpc = "absent"
       \/ jpc \in {"fresh", "joined", "rejoined"} /\ MergeRaises(sdf[1].cols, WeatherColumns)
    /\ jpc' = "raised"
    /\ UNCHANGED <<gtfsH, gmr, stidx, wx, cov, sdf, notDailyVars>>

DailyNext ==
    \/ CovariatesStationDay
    \/ StationDayFeatures2022
    \/ JoinWeather
    \/ JoinWeatherRaises

(***************************************************************************)
(* Files of data/processed as 03_build_model_matrix.main meets them.       *)
(* A file is [name, cols, empty]: its name, the set of its columns and     *)
(* whether its table has no row; writing replaces a file of the same name. *)
(***************************************************************************)
\* to_parquet / to_csv: the directory after writing the file
WriteTable(dir, name, cols, empty, object) ==
    {f \in dir : f.name # name}
        \cup {[name |-> name, cols |-> cols, empty |-> empty, object |-> object]}

\* a table whose columns have the types of their values
WriteFile(dir, name, cols, empty) == WriteTable(dir, name, cols, empty, FALSE)

Exists(dir, name) == \E f \in dir : f.name = name

\* the columns of an existing file
ColumnsOf(dir, name) == (CHOOSE f \in dir : f.name = name).cols

\* DataFrame.empty of an existing file
IsEmpty(dir, name) == (CHOOSE f \in dir : f.name = name).empty

\* the key columns of an existing file have dtype object: the table was
\* built without rows from column names alone
IsObject(dir, name) == (CHOOSE f \in dir : f.name = name).object

\* DataFrame.rename(columns=m), m given as a set of <<old, new>>
Renamed(cols, m) ==
    {IF \E p \in m : p[1] = c THEN (CHOOSE p \in m : p[1] = c)[2] ELSE c : c \in cols}

\* 02_gmr_day.py, lines 53-58 (and 03, lines 67-72): rename_map
GmrRenameMap ==
    {<<"transit_stations_percent_change_from_baseline", "gmr_transit">>,
     <<"workplaces_percent_change_from_baseline", "gmr_work">>,
     <<"retail_and_recreation_percent_change_from_baseline", "gmr_retail">>,
     <<"parks_percent_change_from_baseline", "gmr_parks">>}

\* 03, lines 76-79
WeatherRenameMap ==
    {<<"tmax", "tmax">>, <<"temp_max", "tmax">>, <<"temperature_2m_max", "tmax">>,
     <<"precip", "precip">>, <<"precipitation_sum", "precip">>}

\* 03, lines 89-92
GtfsRenameMap == {<<"gtfs_dep_300m", "gtfs_dep_300m">>, <<"departures_300m", "gtfs_dep_300m">>}

\* 03, lines 18-22: the files _safe_read must find
RequiredFiles ==
    {"station_hour_outcomes.parquet", "station_day_outcomes.parquet", "station_index.csv",
     "gmr_day.parquet", "weather_2022.parquet"}

\* 03_build_model_matrix.main, lines 47-138: "done", or the first error
\* raised.  The GTFS steps are entered when gtfs_h has rows (lines 62, 88,
\* 99, 110); a missing GTFS file is replaced by an empty frame (lines 52-55),
\* and the merge of line 119 raises ValueError on two empty tables, the date
\* of y_d being a datetime column and the date of gtfs_d an object column.
MatrixOutcome(dir) ==
    IF \E n \in RequiredFiles : ~Exists(dir, n) THEN "FileNotFoundError"
    ELSE
    LET y_h == ColumnsOf(dir, "station_hour_outcomes.parquet")
        y_d == ColumnsOf(dir, "station_day_outcomes.parquet")
        st == ColumnsOf(dir, "station_index.csv")
        gm == Renamed(ColumnsOf(dir, "gmr_day.parquet"), GmrRenameMap)
        met == Renamed(ColumnsOf(dir, "weather_2022.parquet"), WeatherRenameMap)
        has_gtfs == /\ Exists(dir, "gtfs_station_hour.parquet")
                    /\ ~IsEmpty(dir, "gtfs_station_hour.parquet")
        gt == IF has_gtfs
              THEN Renamed(ColumnsOf(dir, "gtfs_station_hour.parquet"), GtfsRenameMap)
              ELSE {}
    IN  IF \/ "date" \notin y_h \/ "date" \notin y_d
           \/ ~({"date", "gmr_transit", "gmr_work", "gmr_retail", "gmr_parks"} \subseteq gm)
           \/ ~({"date", "tmax", "precip"} \subseteq met)
           \/ "station_id" \notin st
           \/ has_gtfs /\ ~({"station_id", "date", "hour", "gtfs_dep_300m"} \subseteq gt)
           \/ "station_id" \notin y_h \/ "station_id" \notin y_d
           \/ has_gtfs /\ "hour" \notin y_h
        THEN "KeyError"
        ELSE IF ~has_gtfs /\ IsEmpty(dir, "station_day_outcomes.parquet")
        THEN "ValueError"
        ELSE IF "hour" \notin y_h \/ "trips" \notin y_h \/ "trips" \notin y_d
        THEN "RuntimeError"
        ELSE "done"

\* the columns of a file of data/processed: "written", those the stage of
\* the repository that writes the file gives it (the outcome tables as
\* snapshots_to_trips.py lines 33-34 builds them); "expected", those the
\* comments of 03, lines 18-23, ask for
ColumnsAs(lay, name) ==
    IF lay = "written"
    THEN CASE name = "station_hour_outcomes.parquet" -> {"station_id", "date", "hour", "trips_hour"}
           [] name = "station_day_outcomes.parquet" -> {"station_id", "date", "trips_day"}
           [] name = "station_index.csv" ->
                  {"station_id", "name", "desc", "capacity", "lon", "lat", "zone"}
           [] name = "gmr_day.parquet" ->
                  {"date", "gmr_transit", "gmr_work", "gmr_retail", "gmr_parks",
                   "geo_level", "region_name"}
           [] name = "weather_2022.parquet" -> {"date", "tmax", "tmin", "prcp"}
           [] name = "gtfs_station_hour.parquet" ->
                  {"station_id", "date", "hour", "dep_hour_urb_300m", "dep_hour_ext_300m",
                   "dep_hour_total_300m"}
           [] OTHER -> {}
    ELSE CASE name = "station_hour_outcomes.parquet" -> {"station_id", "date", "hour", "trips"}
           [] name = "station_day_outcomes.parquet" -> {"station_id", "date", "trips"}
           [] name = "station_index.csv" -> {"station_id", "name", "lat", "lon", "zone"}
           [] name = "gmr_day.parquet" ->
                  {"date", "gmr_transit", "gmr_work", "gmr_retail", "gmr_parks"}
           [] name = "weather_2022.parquet" -> {"date", "tmax", "precip"}
           [] name = "gtfs_station_hour.parquet" ->
                  {"station_id", "date", "hour", "gtfs_dep_300m"}
           [] OTHER -> {}

\* the directory made of the files named in fs, each with rows and with the
\* columns of the layout
DirOf(fs, lay) ==
    {[name |-> n, cols |-> ColumnsAs(lay, n), empty |-> FALSE, object |-> FALSE] : n \in fs}

(***************************************************************************)
(* scripts/build_datasets.py: main, build_temporal, build_spatial at the   *)
(* level of files, and src/etl/03_build_model_matrix.py: main              *)
(***************************************************************************)
UpstreamFiles ==
    {"meteo_daily.parquet", "mobility_trento_2022.parquet",
     "stations_clean.geojson", "gtfs_stops_2025.geojson", "stop_times.txt", "trips.txt",
     "station_hour_outcomes.parquet", "station_day_outcomes.parquet", "station_index.csv",
     "gmr_day.parquet", "weather_2022.parquet", "gtfs_station_hour.parquet"}

\* build_temporal checks only the weather file
TemporalMissingMeteoOnly(fs) == "meteo_daily.parquet" \notin fs

\* build_temporal, lines 50-53: the test that raises FileNotFoundError
TemporalMissing(fs) ==
    "meteo_daily.parquet" \notin fs \/ "mobility_trento_2022.parquet" \notin fs

\* build_spatial, lines 106-111: RuntimeError without geopandas,
\* FileNotFoundError without one of the two layers
SpatialMissing(fs, geopandas) ==
    \/ ~geopandas
    \/ "stations_clean.geojson" \notin fs \/ "gtfs_stops_2025.geojson" \notin fs

\* _routes_per_stop, lines 92-93: read_csv raises on a missing GTFS table
RoutesMissing(fs) == "stop_times.txt" \notin fs \/ "trips.txt" \notin fs

BuildInit ==
    /\ present \in SUBSET UpstreamFiles
    /\ gpd \in BOOLEAN
    /\ layout \in {"written", "expected"}
    /\ written = {}
    /\ bpc = "start"
    /\ xpc = "start"

BuildIdle ==
    /\ present = {}
    /\ gpd = FALSE
    /\ layout = "written"
    /\ written = {}
    /\ bpc = "idle"
    /\ xpc = "idle"

\* main, line 182: build_temporal returns after writing temporal_2022.parquet
BuildTemporal ==
    /\ bpc = "start"
    /\ ~TemporalMissing(present)
    /\ written' = written \cup {"temporal_2022.parquet"}
    /\ bpc' = "temporal_done"
    /\ UNCHANGED <<present, gpd, layout, xpc, notBuildVars>>

\* main, line 182: build_temporal raises, main ends
BuildTemporalRaises ==
    /\ bpc = "start"
    /\ TemporalMissing(present)
    /\ bpc' = "raised_temporal"
    /\ UNCHANGED <<present, gpd, layout, written, xpc, notBuildVars>>

\* main, line 185: build_spatial returns after writing its two files
BuildSpatial ==
    /\ bpc = "temporal_done"
    /\ ~SpatialMissing(present, gpd)
    /\ ~RoutesMissing(present)
    /\ written' = written \cup {"station_accessibility_2025.parquet",
                                "station_accessibility_2025.geojson"}
    /\ bpc' = "done"
    /\ UNCHANGED <<present, gpd, layout, xpc, notBuildVars>>

\* main, line 185: build_spatial raises before line 162
BuildSpatialRaises ==
    /\ bpc = "temporal_done"
    /\ SpatialMissing(present, gpd) \/ RoutesMissing(present)
    /\ bpc' = "raised_spatial"
    /\ UNCHANGED <<present, gpd, layout, written, xpc, notBuildVars>>

\* 03_build_model_matrix.main reaches its save step, lines 137-138
BuildModelMatrix ==
    /\ xpc = "start"
    /\ MatrixOutcome(DirOf(present, layout)) = "done"
    /\ written' = written \cup {"model_matrix_hour.parquet", "model_matrix_day.parquet"}
    /\ xpc' = "done"
    /\ UNCHANGED <<present, gpd, layout, bpc, notBuildVars>>

\* 03_build_model_matrix.main raises: FileNotFoundError at lines 47-51,
\* KeyError at lines 58-119, RuntimeError at lines 128-134
BuildModelMatrixRaises ==
    /\ xpc = "start"
    /\ MatrixOutcome(DirOf(present, layout)) # "done"
    /\ xpc' = "raised"
    /\ UNCHANGED <<present, gpd, layout, written, bpc, notBuildVars>>

BuildNext ==
    \/ BuildTemporal
    \/ BuildTemporalRaises
    \/ BuildSpatial
    \/ BuildSpatialRaises
    \/ BuildModelMatrix
    \/ BuildModelMatrixRaises

(***************************************************************************)
(* SpecParse: fetch_once (lines 61-74) on one JSON answer                  *)
(***************************************************************************)
MaxParsePayload == 3

\* the JSON answers: "d" is not a list, is the empty list, or is a list of
\* up to MaxParsePayload elements; element 0 may be anything, a well-formed
\* record included
ParseAnswers ==
    {[kind |-> "ok", list |-> FALSE, d |-> <<>>], [kind |-> "ok", list |-> TRUE, d |-> <<>>]}
    \cup {[kind |-> "ok", list |-> TRUE, d |-> p] :
              p \in SeqsUpTo(PayloadItems \cup {ImagesUrl}, MaxParsePayload) \ {<<>>}}

ParseInit ==
    /\ js \in ParseAnswers
    /\ fetched = None
    /\ ppc = "call"

ParseIdle ==
    /\ js = [kind |-> "ok", list |-> FALSE, d |-> <<>>]
    /\ fetched = None
    /\ ppc = "idle"

\* lines 61-74: payload = js.get("d", []) ... return rows
FetchOnceReturns ==
    /\ ppc = "call"
    /\ fetched' = Some(RowsOf(js))
    /\ ppc' = "returned"
    /\ UNCHANGED <<js, notParseVars>>

ParseNext == FetchOnceReturns

(***************************************************************************)
(* src/etl/snapshots_to_trips.py                                           *)
(*   The name of a snapshot file carries its wall-clock time               *)
(*   "%Y%m%dT%H%M%S", modelled as [day (YYYYMMDD), hm (HHMM)].  A frame    *)
(*   cell that pandas holds as NaN / NaT is None.                          *)
(***************************************************************************)
\* line 24: the rebalancing threshold
REBAL_MAX == 6

\* lines 13-15: tz_localize("Europe/Rome", nonexistent="shift_forward",
\* ambiguous="NaT") for the changes of 2025: the hour 02:00-02:59 of
\* 26 October happens twice (NaT), that of 30 March does not exist (03:00)
TzLocalize(ts) ==
    IF ts.day = 20251026 /\ ts.hm \in 200..259 THEN None
    ELSE IF ts.day = 20250330 /\ ts.hm \in 200..259 THEN Some([day |-> ts.day, hm |-> 300])
    ELSE Some(ts)

\* line 12: pd.concat of the files in name order, one row per record
RECURSIVE ConcatSnapshots(_)
ConcatSnapshots(fs) ==
    IF fs = <<>> THEN <<>>
    ELSE [k \in DOMAIN fs[1].rows |->
             [station_id |-> fs[1].rows[k].station_id, bikes |-> fs[1].rows[k].bikes,
              ts |-> fs[1].ts, timestamp |-> TzLocalize(fs[1].ts)]]
         \o ConcatSnapshots(Tail(fs))

\* line 16: df.sort_values(["station_id","timestamp"]): a stable sort, NaT last
SortValues(t) ==
    LET keyOf(k) == <<t[k].station_id,
                      IF t[k].timestamp = None THEN 1 ELSE 0,
                      IF t[k].timestamp = None THEN 0 ELSE t[k].timestamp[1].day,
                      IF t[k].timestamp = None THEN 0 ELSE t[k].timestamp[1].hm,
                      k>>
        order == SortKeys({keyOf(k) : k \in DOMAIN t})
    IN  [k \in DOMAIN t |-> t[order[k][5]]]

\* lines 20-21: the previous row of the same station, and the difference
BikesLag(t, k) ==
    IF k > 1 /\ t[k - 1].station_id = t[k].station_id THEN Some(t[k - 1].bikes) ELSE None

Delta(t, k) == IF BikesLag(t, k) = None THEN None ELSE Some(t[k].bikes - BikesLag(t, k)[1])

\* the rebalancing mask from a change of 6 on
MaskRebalFromSix(d) == d # None /\ Abs(d[1]) >= REBAL_MAX

\* line 24: mask_rebal = df["delta"].abs() > 6  (False on NaN)
MaskRebal(d) == d # None /\ Abs(d[1]) > REBAL_MAX

\* line 25: delta = 0 where masked
FilteredDelta(d) == IF MaskRebal(d) THEN Some(0) ELSE d

\* clip left out: the value as it is
ClipLowerKeepsValue(c) == c

\* Series.clip(lower=0): NaN stays NaN
ClipLower(c) == IF c = None THEN None ELSE Some(IF c[1] < 0 THEN 0 ELSE c[1])

\* -Series
Negated(c) == IF c = None THEN None ELSE Some(-c[1])

\* lines 20-31: the columns added to the sorted frame
InferredFrame(t) ==
    [k \in DOMAIN t |->
        LET d == FilteredDelta(Delta(t, k))
        IN  [station_id |-> t[k].station_id, bikes |-> t[k].bikes, ts |-> t[k].ts,
             timestamp |-> t[k].timestamp,
             bikes_lag |-> BikesLag(t, k),
             delta |-> d,
             pickup |-> ClipLower(Negated(d)),
             return |-> ClipLower(d),
             date |-> IF t[k].timestamp = None THEN None
                      ELSE Some(ToDatetime(t[k].timestamp[1].day)),
             hour |-> IF t[k].timestamp = None THEN None
                      ELSE Some(t[k].timestamp[1].hm \div 100)]]

\* line 33: groupby(["station_id","date","hour"]).agg(trips_hour=("pickup","sum")):
\* rows with a NaT key are dropped, NaN pickups are skipped by the sum
AggTripsHour(t) ==
    LET keyed == {k \in DOMAIN t : t[k].date # None}
        keyOf(k) == <<t[k].station_id, t[k].date[1], t[k].hour[1]>>
        keys == SortKeys({keyOf(k) : k \in keyed})
    IN  [n \in DOMAIN keys |->
            [station_id |-> keys[n][1], date |-> keys[n][2], hour |-> keys[n][3],
             trips_hour |-> SumSeq([k \in DOMAIN t |->
                                IF k \in keyed /\ keyOf(k) = keys[n]
                                THEN OrZero(t[k].pickup) ELSE 0])]]

\* the day's value taken from its busiest hour
AggTripsDayMax(h) ==
    LET keys == SortKeys({<<h[k].station_id, h[k].date>> : k \in DOMAIN h})
    IN  [n \in DOMAIN keys |->
            [station_id |-> keys[n][1], date |-> keys[n][2],
             trips_day |-> Max({h[k].trips_hour : k \in {j \in DOMAIN h :
                                   <<h[j].station_id, h[j].date>> = keys[n]}})]]

\* line 34: H.groupby(["station_id","date"]).agg(trips_day=("trips_hour","sum"))
AggTripsDay(h) ==
    LET keys == SortKeys({<<h[k].station_id, h[k].date>> : k \in DOMAIN h})
    IN  [n \in DOMAIN keys |->
            [station_id |-> keys[n][1], date |-> keys[n][2],
             trips_day |-> SumSeq([k \in DOMAIN h |->
                               IF <<h[k].station_id, h[k].date>> = keys[n]
                               THEN h[k].trips_hour ELSE 0])]]

\* ---- inputs ----
MaxSnapshots == 3

\* wall-clock times of snapshot files, in name order: two in one hour, one
\* in the repeated hour of 26 October 2025, one later that day, one the next day
Stamps ==
    <<[day |-> 20251026, hm |-> 140], [day |-> 20251026, hm |-> 150],
      [day |-> 20251026, hm |-> 230], [day |-> 20251026, hm |-> 310],
      [day |-> 20251027, hm |-> 5]>>

\* the rows of one file as save_snapshot writes them: never empty, integer
\* bike counts
SnapshotRows ==
    {<<[station_id |-> 1, bikes |-> 0]>>,
     <<[station_id |-> 1, bikes |-> 1]>>,
     <<[station_id |-> 1, bikes |-> 7]>>,
     <<[station_id |-> 1, bikes |-> 7], [station_id |-> 2, bikes |-> 2]>>,
     <<[station_id |-> 1, bikes |-> 1], [station_id |-> 2, bikes |-> 0]>>,
     <<[station_id |-> 2, bikes |-> 2]>>}

\* up to MaxSnapshots files with distinct names
SnapshotDirs ==
    UNION {UNION {{[k \in 1..n |-> [ts |-> Stamps[p[k]], rows |-> r[k]]] :
                       r \in [1..n -> SnapshotRows]} :
                  p \in {q \in [1..n -> DOMAIN Stamps] :
                            \A i, j \in 1..n : i < j => q[i] < q[j]}} :
           n \in 0..MaxSnapshots}

TripsInit ==
    /\ snaps \in SnapshotDirs
    /\ df = <<>>
    /\ station_hour = None
    /\ station_day = None
    /\ tpc = "start"

TripsIdle ==
    /\ snaps = <<>>
    /\ df = <<>>
    /\ station_hour = None
    /\ station_day = None
    /\ tpc = "idle"

\* lines 8-10: no snapshot file, SystemExit
NoSnapshots ==
    /\ tpc = "start"
    /\ snaps = <<>>
    /\ tpc' = "exit"
    /\ UNCHANGED <<snaps, df, station_hour, station_day, notTripsVars>>

\* lines 12-18: read, localize, sort
ReadSnapshots ==
    /\ tpc = "start"
    /\ snaps # <<>>
    /\ df' = SortValues(ConcatSnapshots(snaps))
    /\ tpc' = "read"
    /\ UNCHANGED <<snaps, station_hour, station_day, notTripsVars>>

\* lines 20-31: lag, delta, rebalancing filter, pickup, return, date, hour
InferTrips ==
    /\ tpc = "read"
    /\ df' = InferredFrame(df)
    /\ tpc' = "inferred"
    /\ UNCHANGED <<snaps, station_hour, station_day, notTripsVars>>

\* lines 33-37: the two aggregates, written
WriteOutcomes ==
    /\ tpc = "inferred"
    /\ station_hour' = Some(AggTripsHour(df))
    /\ station_day' = Some(AggTripsDay(AggTripsHour(df)))
    /\ tpc' = "done"
    /\ UNCHANGED <<snaps, df, notTripsVars>>

TripsNext ==
    \/ NoSnapshots
    \/ ReadSnapshots
    \/ InferTrips
    \/ WriteOutcomes

(***************************************************************************)
(* The three stages that select the Trento / Trentino rows of the Google   *)
(* Mobility report: clean_mobility of scripts/clean_all.py,                *)
(* src/etl/02_gmr_day.py and INPUT/OUTPUT.                                 *)
(*   A row of the report is [country_region, sub_region_1, sub_region_2,   *)
(*   date, transit], the empty string standing for a missing name after    *)
(*   fillna("").  The regular expressions are evaluated on the place       *)
(*   names of the model, listed in PlaceNames.                             *)
(***************************************************************************)
PlaceNames ==
    {"", "Trentino-South Tyrol", "Autonomous Province of Trento", "South Tyrol",
     "Trentino-Alto Adige", "Trento", "Bolzano", "Lombardy"}

\* 02_gmr_day.py, lines 16-18 and 35-36: str.match of
\* ^Trento$ | Provincia.*Trento | Autonomous\s*Province\s*of\s*Trento
MatchesProvince(s) == s \in {"Trento", "Autonomous Province of Trento"}

\* 02_gmr_day.py, lines 13-15 and 40-41: str.match of
\* Trentino[-\s]Alto\sAdige(?:\s*[-/]?\s*S[uü]dtirol)?
MatchesRegion(s) == s = "Trentino-Alto Adige"

\* INPUT/OUTPUT, lines 5 and 18: str.contains of
\* Trentino[-\s]Alto\sAdige(?:.?S[uü]dtirol)?
ContainsRegion(s) == s = "Trentino-Alto Adige"

\* sort_values("date"): rows by date, equal dates in the order they had
SortByDate(t) ==
    LET order == SortKeys({<<t[k].date, k>> : k \in DOMAIN t})
    IN  [k \in DOMAIN t |-> t[order[k][2]]]

\* clean_all.py, lines 88-92: the rows of the Autonomous Province of Trento
TrentoRows(mob) ==
    SelectSeq(mob, LAMBDA r : /\ r.sub_region_1 = "Trentino-South Tyrol"
                              /\ r.sub_region_2 = "Autonomous Province of Trento")

\* clean_all.py, lines 95-109: renamed, reduced and sorted
CleanedMobility(mob) ==
    LET t == SortByDate(TrentoRows(mob))
    IN  [k \in DOMAIN t |-> [date |-> t[k].date, mob_transit |-> t[k].transit]]

\* 02_gmr_day.py, lines 27-28
ItalyRows(t) == SelectSeq(t, LAMBDA r : r.country_region = "Italy")

\* 02_gmr_day.py, line 31
HasProv(t) == \E k \in DOMAIN t : t[k].sub_region_2 # ""

\* 02_gmr_day.py, lines 34-36: the province selection is tried
ProvinceUsed(t) ==
    HasProv(t) /\ \E k \in DOMAIN t : MatchesProvince(t[k].sub_region_2)

\* 02_gmr_day.py, lines 32-44: g.loc[sel]
Selected(t) ==
    IF ProvinceUsed(t)
    THEN SelectSeq(t, LAMBDA r : MatchesProvince(r.sub_region_2))
    ELSE SelectSeq(t, LAMBDA r : MatchesRegion(r.sub_region_1))

\* 02_gmr_day.py, lines 53-68: the table written
GmrDayTable(t) ==
    LET s == SortByDate(Selected(ItalyRows(t)))
    IN  [geo_level |-> IF ProvinceUsed(ItalyRows(t)) THEN "province" ELSE "region",
         rows |-> [k \in DOMAIN s |-> [date |-> s[k].date, gmr_transit |-> s[k].transit]]]

\* INPUT/OUTPUT, lines 15-19: the rows flt would select, were line 1 passed
RegionLevelRows(t) ==
    SelectSeq(t, LAMBDA r : /\ r.country_region = "Italy"
                            /\ r.sub_region_2 = ""
                            /\ ContainsRegion(r.sub_region_1))

\* ---- inputs ----
MaxReportRows == 3

ReportDates == <<ToDatetime(20220301), ToDatetime(20220302)>>

\* the places of a report under the two namings met in the releases: the
\* country, the region, its two provinces and another region
Places(naming) ==
    IF naming = "en"
    THEN <<<<"Italy", "", "", 1>>,
           <<"Italy", "Trentino-South Tyrol", "", 5>>,
           <<"Italy", "Trentino-South Tyrol", "Autonomous Province of Trento", 7>>,
           <<"Italy", "Trentino-South Tyrol", "South Tyrol", 9>>,
           <<"Italy", "Lombardy", "", 3>>>>
    ELSE <<<<"Italy", "", "", 1>>,
           <<"Italy", "Trentino-Alto Adige", "", 5>>,
           <<"Italy", "Trentino-Alto Adige", "Trento", 7>>,
           <<"Italy", "Trentino-Alto Adige", "Bolzano", 9>>,
           <<"Italy", "Lombardy", "", 3>>>>

\* the report: up to MaxReportRows rows, each (place, date) at most once,
\* grouped by place and ordered by date as the releases are
Reports ==
    UNION {{[k \in 1..n |->
               LET pl == Places(naming)[p[k][1]]
               IN  [country_region |-> pl[1], sub_region_1 |-> pl[2], sub_region_2 |-> pl[3],
                    date |-> ReportDates[p[k][2]], transit |-> pl[4]]] :
            p \in {q \in [1..n -> (1..5) \X (1..2)] :
                      \A i, j \in 1..n : i < j => LexLess(q[i], q[j])},
            naming \in {"en", "it"}} :
           n \in 0..MaxReportRows}

MobilityInit ==
    /\ report \in Reports
    /\ mobility_trento = None
    /\ gmr_day = None
    /\ cmpc = "start"
    /\ gdpc = "start"
    /\ iopc = "start"

MobilityIdle ==
    /\ report = <<>>
    /\ mobility_trento = None
    /\ gmr_day = None
    /\ cmpc = "idle"
    /\ gdpc = "idle"
    /\ iopc = "idle"

\* clean_mobility, lines 83-115
CleanMobility ==
    /\ cmpc = "start"
    /\ TrentoRows(report) # <<>>
    /\ mobility_trento' = Some(CleanedMobility(report))
    /\ cmpc' = "done"
    /\ UNCHANGED <<report, gmr_day, gdpc, iopc, notMobilityVars>>

\* the test of lines 93-94 left out: the empty table is written
CleanMobilityWritesEmpty ==
    /\ cmpc = "start"
    /\ TrentoRows(report) = <<>>
    /\ mobility_trento' = Some(CleanedMobility(report))
    /\ cmpc' = "done"
    /\ UNCHANGED <<report, gmr_day, gdpc, iopc, notMobilityVars>>

\* clean_mobility, lines 93-94: ValueError
CleanMobilityRaises ==
    /\ cmpc = "start"
    /\ TrentoRows(report) = <<>>
    /\ cmpc' = "raised"
    /\ UNCHANGED <<report, mobility_trento, gmr_day, gdpc, iopc, notMobilityVars>>

\* 02_gmr_day.py, lines 21-72
GmrDay ==
    /\ gdpc = "start"
    /\ Selected(ItalyRows(report)) # <<>>
    /\ gmr_day' = Some(GmrDayTable(report))
    /\ gdpc' = "done"
    /\ UNCHANGED <<report, mobility_trento, cmpc, iopc, notMobilityVars>>

\* 02_gmr_day.py, lines 46-50: ValueError
GmrDayRaises ==
    /\ gdpc = "start"
    /\ Selected(ItalyRows(report)) = <<>>
    /\ gdpc' = "raised"
    /\ UNCHANGED <<report, mobility_trento, gmr_day, cmpc, iopc, notMobilityVars>>

\* INPUT/OUTPUT, line 1: the file has no import line, so the name Path is
\* not bound and the script stops with NameError before it reads the report
\* or writes gmr_day.parquet
RegionLevelStageNameError ==
    /\ iopc = "start"
    /\ iopc' = "raised"
    /\ UNCHANGED <<report, mobility_trento, gmr_day, cmpc, gdpc, notMobilityVars>>

MobilityNext ==
    \/ CleanMobility
    \/ CleanMobilityRaises
    \/ GmrDay
    \/ GmrDayRaises
    \/ RegionLevelStageNameError

(***************************************************************************)
(* SpecPipeline: the scripts that write into data/processed, and           *)
(* 03_build_model_matrix.main reading what they wrote.  The scripts are    *)
(* run one after the other, none starts another, so one step is one run    *)
(* of a script, on raw inputs it accepts; a run that raises before its     *)
(* first write leaves data/processed as it was.  Each script runs to its   *)
(* end at most once (ran).  The directory is empty at the start, or holds  *)
(* the six files of lines 18-23 of 03 with the columns asked for there.    *)
(* src/models/01_gam_models.py has no step: line 25 assigns the frame of   *)
(* nine columns that dmatrix returns to the one column s_hour, which       *)
(* raises ValueError on every matrix, before the writes of lines 82-83.    *)
(* INPUT/OUTPUT has no step: it has no import line and its first line      *)
(* raises NameError, before the write of line 46.                          *)
(***************************************************************************)
\* DataFrame.merge(on=...): the columns of the result; a name present on both
\* sides, the keys apart, gets the suffix _x on the left and _y on the right
MergeColumnsOf(l, r, on) ==
    LET both == (l \cap r) \ on
    IN  (l \ both) \cup {c \o "_x" : c \in both}
            \cup (r \ both) \cup {c \o "_y" : c \in both}

\* DataFrame.merge raises: KeyError on a missing key, MergeError when the
\* suffixes produce a name that is already there
MergeFails(l, r, on) ==
    LET both == (l \cap r) \ on
    IN  \/ ~(on \subseteq l /\ on \subseteq r)
        \/ \E c \in both : (c \o "_x") \in (l \ both) \/ (c \o "_y") \in (r \ both)

\* pd.read_parquet(P/name)[cols], pd.read_csv: the file is there with the columns
Readable(dir, name, cols) == Exists(dir, name) /\ cols \subseteq ColumnsOf(dir, name)

GmrSourceColumns == {p[1] : p \in GmrRenameMap}

UpstreamStages ==
    {"snapshots_to_trips", "01_build_station_index", "02_gmr_day",
     "08_weather_2022_openmeteo", "gtfs_to_station_hour"}

\* the six files of 03, lines 18-23, with the columns asked for there; the
\* two outcome tables, and the GTFS table, with or without rows; a GTFS
\* table without rows has typed or object columns
SeedDirs ==
    LET six == DirOf(RequiredFiles \cup {"gtfs_station_hour.parquet"}, "expected")
        outcomes == {"station_hour_outcomes.parquet", "station_day_outcomes.parquet"}
    IN  {{[f EXCEPT !.empty = \/ f.name \in outcomes /\ e1
                              \/ f.name = "gtfs_station_hour.parquet" /\ e2,
                    !.object = f.name = "gtfs_station_hour.parquet" /\ e2 /\ e3] : f \in six} :
            e1 \in BOOLEAN, e2 \in BOOLEAN, e3 \in BOOLEAN}

\* the number of scripts that run to their end in one behaviour
MaxRuns == 7

PipelineInit ==
    /\ seeded \in BOOLEAN
    /\ gmr_source \in IF seeded THEN {GmrSourceColumns} ELSE SUBSET GmrSourceColumns
    /\ proc \in IF seeded THEN SeedDirs ELSE {{}}
    /\ ran = {}
    /\ mmpc = "start"

PipelineIdle ==
    /\ gmr_source = {}
    /\ seeded = FALSE
    /\ proc = {}
    /\ ran = {}
    /\ mmpc = "idle"

\* snapshots_to_trips.py, lines 12-37: the two tables have no row when every
\* snapshot time is NaT (line 14) and the groupby of line 33 drops every row
StageSnapshotsToTrips ==
    /\ mmpc # "idle"
    /\ "snapshots_to_trips" \notin ran
    /\ Cardinality(ran) < MaxRuns
    /\ \E e \in BOOLEAN :
          proc' = WriteFile(WriteFile(proc, "station_hour.parquet",
                                      {"station_id", "date", "hour", "trips_hour"}, e),
                            "station_day.parquet", {"station_id", "date", "trips_day"}, e)
    /\ ran' = ran \cup {"snapshots_to_trips"}
    /\ UNCHANGED <<gmr_source, seeded, mmpc, notPipelineVars>>

\* 01_build_station_index.py, lines 77-87
StageStationIndex ==
    /\ mmpc # "idle"
    /\ "01_build_station_index" \notin ran
    /\ Cardinality(ran) < MaxRuns
    /\ proc' = WriteFile(WriteFile(proc, "station_index.geo.parquet",
                                   {"station_id", "name", "desc", "capacity", "lon", "lat",
                                    "zone", "geometry"}, FALSE),
                         "station_index.csv",
                         {"station_id", "name", "desc", "capacity", "lon", "lat", "zone"}, FALSE)
    /\ ran' = ran \cup {"01_build_station_index"}
    /\ UNCHANGED <<gmr_source, seeded, mmpc, notPipelineVars>>

\* 02_gmr_day.py, lines 59-71
StageGmrDay ==
    /\ mmpc # "idle"
    /\ "02_gmr_day" \notin ran
    /\ Cardinality(ran) < MaxRuns
    /\ proc' = WriteFile(proc, "gmr_day.parquet",
                         {"date", "geo_level", "region_name"}
                             \cup Renamed(gmr_source, GmrRenameMap), FALSE)
    /\ ran' = ran \cup {"02_gmr_day"}
    /\ UNCHANGED <<gmr_source, seeded, mmpc, notPipelineVars>>

\* 08_weather_2022_openmeteo.py, lines 10-16
StageWeather ==
    /\ mmpc # "idle"
    /\ "08_weather_2022_openmeteo" \notin ran
    /\ Cardinality(ran) < MaxRuns
    /\ proc' = WriteFile(proc, "weather_2022.parquet", {"date", "tmax", "tmin", "prcp"}, FALSE)
    /\ ran' = ran \cup {"08_weather_2022_openmeteo"}
    /\ UNCHANGED <<gmr_source, seeded, mmpc, notPipelineVars>>

\* gtfs_to_station_hour.py, lines 6 and 93-105: it reads the station index
\* and writes the table.  The table has rows; or it has none because every
\* frame appended at line 91 is empty (no departure near a station), with
\* the column types of the frames; or it has none because no frame was
\* appended and line 93 builds it from the column names, with object columns
StageGtfsStationHour ==
    /\ mmpc # "idle"
    /\ "gtfs_to_station_hour" \notin ran
    /\ Cardinality(ran) < MaxRuns
    /\ Exists(proc, "station_index.geo.parquet")
    /\ \E k \in {"rows", "typed", "object"} :
          proc' = WriteTable(proc, "gtfs_station_hour.parquet",
                             {"station_id", "date", "hour", "dep_hour_urb_300m",
                              "dep_hour_ext_300m", "dep_hour_total_300m"},
                             k # "rows", k = "object")
    /\ ran' = ran \cup {"gtfs_to_station_hour"}
    /\ UNCHANGED <<gmr_source, seeded, mmpc, notPipelineVars>>

\* 04_covariates_station_day.py, lines 5-19: the date column of the table
\* written is the date column of gtfs_station_hour.parquet
StageCovariates ==
    /\ mmpc # "idle"
    /\ "04_covariates_station_day" \notin ran
    /\ Cardinality(ran) < MaxRuns
    /\ Readable(proc, "gmr_day.parquet", {"date"})
    /\ Readable(proc, "gtfs_station_hour.parquet",
                {"station_id", "date", "dep_hour_urb_300m", "dep_hour_ext_300m",
                 "dep_hour_total_300m"})
    /\ Readable(proc, "station_index.geo.parquet", {"station_id"})
    /\ proc' = WriteTable(proc, "station_day_covariates.parquet",
                          MergeColumnsOf({"date", "station_id", "dep_urb_day", "dep_ext_day",
                                          "dep_tot_day"},
                                         ColumnsOf(proc, "gmr_day.parquet"), {"date"}),
                          IsEmpty(proc, "gtfs_station_hour.parquet"),
                          IsObject(proc, "gtfs_station_hour.parquet"))
    /\ ran' = ran \cup {"04_covariates_station_day"}
    /\ UNCHANGED <<gmr_source, seeded, mmpc, notPipelineVars>>

\* 05_station_hour_features.py, lines 6-18
StageHourFeatures ==
    /\ mmpc # "idle"
    /\ "05_station_hour_features" \notin ran
    /\ Cardinality(ran) < MaxRuns
    /\ Readable(proc, "gtfs_station_hour.parquet", {"station_id", "date", "hour"})
    /\ Readable(proc, "station_index.geo.parquet",
                {"station_id", "lon", "lat", "capacity", "zone"})
    /\ proc' = WriteTable(proc, "station_hour_features.parquet",
                          MergeColumnsOf(ColumnsOf(proc, "gtfs_station_hour.parquet"),
                                         {"station_id", "lon", "lat", "capacity", "zone"},
                                         {"station_id"}) \cup {"dow"},
                          IsEmpty(proc, "gtfs_station_hour.parquet"),
                          IsObject(proc, "gtfs_station_hour.parquet"))
    /\ ran' = ran \cup {"05_station_hour_features"}
    /\ UNCHANGED <<gmr_source, seeded, mmpc, notPipelineVars>>

\* 06_station_day_features.py, lines 5-18
StageDayFeatures ==
    /\ mmpc # "idle"
    /\ "06_station_day_features" \notin ran
    /\ Cardinality(ran) < MaxRuns
    /\ Readable(proc, "station_day_covariates.parquet", {"date", "station_id"})
    /\ Readable(proc, "station_index.geo.parquet",
                {"station_id", "capacity", "zone", "lon", "lat"})
    /\ LET covCols == ColumnsOf(proc, "station_day_covariates.parquet")
                      \cup {"dow", "dep_urb_day", "dep_ext_day", "dep_tot_day"}
           stidxCols == {"station_id", "capacity", "zone", "lon", "lat"}
       IN  /\ ~MergeFails(covCols, stidxCols, {"station_id"})
           /\ proc' = WriteTable(proc, "station_day_features.parquet",
                                 MergeColumnsOf(covCols, stidxCols, {"station_id"}),
                                 IsEmpty(proc, "station_day_covariates.parquet"),
                                 IsObject(proc, "station_day_covariates.parquet"))
    /\ ran' = ran \cup {"06_station_day_features"}
    /\ UNCHANGED <<gmr_source, seeded, mmpc, notPipelineVars>>

\* 07_station_day_features_2022.py, lines 6-34; on an empty gmr_day.parquet
\* d0 and d1 are NaT and pd.date_range (line 22) raises
StageDayFeatures2022 ==
    /\ mmpc # "idle"
    /\ "07_station_day_features_2022" \notin ran
    /\ Cardinality(ran) < MaxRuns
    /\ Readable(proc, "gmr_day.parquet", {"date"})
    /\ Readable(proc, "gtfs_station_hour.parquet",
                {"station_id", "date", "dep_hour_urb_300m", "dep_hour_ext_300m",
                 "dep_hour_total_300m"})
    /\ Readable(proc, "station_index.geo.parquet",
                {"station_id", "capacity", "zone", "lon", "lat"})
    /\ ~IsEmpty(proc, "gmr_day.parquet")
    /\ LET gridCols == MergeColumnsOf({"station_id", "date", "dep_urb_day", "dep_ext_day",
                                   "dep_tot_day"},
                                  ColumnsOf(proc, "gmr_day.parquet"), {"date"})
           stidxCols == {"station_id", "capacity", "zone", "lon", "lat"}
       IN  /\ ~MergeFails(gridCols, stidxCols, {"station_id"})
           /\ proc' = WriteFile(proc, "station_day_features_2022.parquet",
                                MergeColumnsOf(gridCols, stidxCols, {"station_id"})
                                    \cup {"dow", "offset"},
                                FALSE)
    /\ ran' = ran \cup {"07_station_day_features_2022"}
    /\ UNCHANGED <<gmr_source, seeded, mmpc, notPipelineVars>>

\* 09_join_weather.py, lines 4-7: the features file is written back
StageJoinWeather ==
    /\ mmpc # "idle"
    /\ "09_join_weather" \notin ran
    /\ Cardinality(ran) < MaxRuns
    /\ Readable(proc, "station_day_features_2022.parquet", {"date"})
    /\ Readable(proc, "weather_2022.parquet", {"date"})
    /\ LET dfCols == ColumnsOf(proc, "station_day_features_2022.parquet")
           wxCols == ColumnsOf(proc, "weather_2022.parquet")
       IN  /\ ~MergeFails(dfCols, wxCols, {"date"})
           /\ proc' = WriteFile(proc, "station_day_features_2022.parquet",
                                MergeColumnsOf(dfCols, wxCols, {"date"}),
                                IsEmpty(proc, "station_day_features_2022.parquet"))
    /\ ran' = ran \cup {"09_join_weather"}
    /\ UNCHANGED <<gmr_source, seeded, mmpc, notPipelineVars>>

\* merge_hourly_features.py, lines 5-10; the merge of line 8 raises on two
\* empty tables when the hour of H is a number column and that of Xg an
\* object column, and runs when both are number columns
StageMergeHourly ==
    /\ mmpc # "idle"
    /\ "merge_hourly_features" \notin ran
    /\ Cardinality(ran) < MaxRuns
    /\ Readable(proc, "station_hour.parquet", {"station_id", "hour"})
    /\ Readable(proc, "gtfs_station_hour.parquet", {"station_id", "hour"})
    /\ Readable(proc, "station_index.csv", {"station_id"})
    /\ ~(/\ IsEmpty(proc, "station_hour.parquet")
          /\ IsEmpty(proc, "gtfs_station_hour.parquet")
          /\ IsObject(proc, "gtfs_station_hour.parquet"))
    /\ LET hxCols == MergeColumnsOf(ColumnsOf(proc, "station_hour.parquet"),
                                ColumnsOf(proc, "gtfs_station_hour.parquet"),
                                {"station_id", "hour"})
           sCols == ColumnsOf(proc, "station_index.csv")
       IN  /\ ~MergeFails(hxCols, sCols, {"station_id"})
           /\ proc' = WriteFile(proc, "model_hour_dataset.parquet",
                                MergeColumnsOf(hxCols, sCols, {"station_id"}),
                                IsEmpty(proc, "station_hour.parquet"))
    /\ ran' = ran \cup {"merge_hourly_features"}
    /\ UNCHANGED <<gmr_source, seeded, mmpc, notPipelineVars>>

\* merge_daily_features.py, lines 5-21; the merge of line 18 raises on two
\* empty tables when the date of D is a datetime column and that of C an
\* object column, and runs when both are datetime columns
StageMergeDaily ==
    /\ mmpc # "idle"
    /\ "merge_daily_features" \notin ran
    /\ Cardinality(ran) < MaxRuns
    /\ Readable(proc, "station_day.parquet", {"station_id", "date"})
    /\ Readable(proc, "gmr_day.parquet", {"date"})
    /\ Readable(proc, "weather_2022.parquet", {"date"})
    /\ Readable(proc, "station_day_covariates.parquet", {"station_id", "date"})
    /\ Readable(proc, "station_index.csv", {"station_id"})
    /\ ~(/\ IsEmpty(proc, "station_day.parquet")
          /\ IsEmpty(proc, "station_day_covariates.parquet")
          /\ IsObject(proc, "station_day_covariates.parquet"))
    /\ LET dgCols == MergeColumnsOf(ColumnsOf(proc, "station_day.parquet"),
                                ColumnsOf(proc, "gmr_day.parquet"), {"date"})
           wCols == ColumnsOf(proc, "weather_2022.parquet")
           dgwCols == MergeColumnsOf(dgCols, wCols, {"date"})
           cCols == ColumnsOf(proc, "station_day_covariates.parquet")
           dgwcCols == MergeColumnsOf(dgwCols, cCols, {"station_id", "date"})
           sCols == ColumnsOf(proc, "station_index.csv")
       IN  /\ ~MergeFails(dgCols, wCols, {"date"})
           /\ ~MergeFails(dgwCols, cCols, {"station_id", "date"})
           /\ ~MergeFails(dgwcCols, sCols, {"station_id"})
           /\ proc' = WriteFile(proc, "model_day_dataset.parquet",
                                MergeColumnsOf(dgwcCols, sCols, {"station_id"}),
                                IsEmpty(proc, "station_day.parquet"))
    /\ ran' = ran \cup {"merge_daily_features"}
    /\ UNCHANGED <<gmr_source, seeded, mmpc, notPipelineVars>>

\* build_temporal, lines 55-79, on the files of data/interim that
\* clean_all.py writes (lines 60-75 and 98-113)
TemporalColumns ==
    {"date", "mob_retail", "mob_grocery", "mob_parks", "mob_transit", "mob_work",
     "mob_residential", "place_id", "iso_3166_2_code", "temp_max", "precip_mm", "dow",
     "is_weekend", "is_holiday", "temp_max_sq", "rain_binary", "rain_heavy"}

\* build_spatial, lines 140-156, on the stations layer that clean_all.py
\* writes (lines 140-148): the ordered columns, then the others
AccessibilityColumns ==
    {"station_id", "name", "capacity", "type", "lat", "lon", "stop_id", "stop_name",
     "dist_to_stop_m", "stops_300m", "stops_500m", "routes_300m", "routes_500m", "desc"}

\* scripts/build_datasets.py, main, lines 172-185: both builders return
StageBuildDatasets ==
    /\ mmpc # "idle"
    /\ "build_datasets" \notin ran
    /\ Cardinality(ran) < MaxRuns
    /\ proc' = WriteFile(WriteFile(WriteFile(proc, "temporal_2022.parquet",
                                             TemporalColumns, FALSE),
                                   "station_accessibility_2025.parquet",
                                   AccessibilityColumns, FALSE),
                         "station_accessibility_2025.geojson",
                         AccessibilityColumns \cup {"geometry"}, FALSE)
    /\ ran' = ran \cup {"build_datasets"}
    /\ UNCHANGED <<gmr_source, seeded, mmpc, notPipelineVars>>

\* scripts/build_datasets.py, main, lines 182-185: build_temporal has written
\* its file (line 79) when build_spatial raises (lines 106, 111, 120)
StageBuildDatasetsSpatialRaises ==
    /\ mmpc # "idle"
    /\ "build_datasets" \notin ran
    /\ Cardinality(ran) < MaxRuns
    /\ proc' = WriteFile(proc, "temporal_2022.parquet", TemporalColumns, FALSE)
    /\ UNCHANGED <<gmr_source, ran, seeded, mmpc, notPipelineVars>>

\* 03, lines 96-125: the columns of Xh (level "hour") and of Xd (level "day")
\* when main reaches its save step
MatrixColumns(dir, level) ==
    LET y == ColumnsOf(dir, IF level = "hour" THEN "station_hour_outcomes.parquet"
                                              ELSE "station_day_outcomes.parquet")
        ys == MergeColumnsOf(y, {"station_id", "zone"}, {"station_id"})
        ysg == MergeColumnsOf(ys, {"date", "gmr_transit", "gmr_work", "gmr_retail",
                                   "gmr_parks"}, {"date"})
        ysgm == MergeColumnsOf(ysg, {"date", "tmax", "precip"}, {"date"})
        has_gtfs == /\ Exists(dir, "gtfs_station_hour.parquet")
                    /\ ~IsEmpty(dir, "gtfs_station_hour.parquet")
    IN  IF level = "hour"
        THEN (IF has_gtfs
              THEN MergeColumnsOf(ysgm, {"station_id", "date", "hour", "gtfs_dep_300m"},
                                  {"station_id", "date", "hour"})
              ELSE ysgm) \cup {"dow", "is_we", "month"}
        ELSE MergeColumnsOf(ysgm, {"station_id", "date", "gtfs_dep_300m_day"},
                            {"station_id", "date"})
                 \cup {"dow", "is_we", "week", "month"}

\* 03_build_model_matrix.main: left merges keep the rows of the outcome tables
ModelMatrixMain ==
    /\ mmpc = "start"
    /\ mmpc' = MatrixOutcome(proc)
    /\ proc' = IF MatrixOutcome(proc) = "done"
               THEN WriteFile(WriteFile(proc, "model_matrix_hour.parquet",
                                        MatrixColumns(proc, "hour"),
                                        IsEmpty(proc, "station_hour_outcomes.parquet")),
                              "model_matrix_day.parquet",
                              MatrixColumns(proc, "day"),
                              IsEmpty(proc, "station_day_outcomes.parquet"))
               ELSE proc
    /\ UNCHANGED <<gmr_source, ran, seeded, notPipelineVars>>

\* src/models/02_did_models.py, lines 20-60, on a matrix with days on both
\* sides of EVENT_DATE: the summary is a text file
StageDidModels ==
    /\ mmpc # "idle"
    /\ "02_did_models" \notin ran
    /\ Cardinality(ran) < MaxRuns
    /\ Readable(proc, "model_matrix_day.parquet",
                {"station_id", "date", "trips", "zone", "tmax", "precip", "gmr_work",
                 "gmr_transit", "dow"})
    /\ ~IsEmpty(proc, "model_matrix_day.parquet")
    /\ proc' = WriteFile(proc, "did_summary.txt", {}, FALSE)
    /\ ran' = ran \cup {"02_did_models"}
    /\ UNCHANGED <<gmr_source, seeded, mmpc, notPipelineVars>>

PipelineNext ==
    \/ StageSnapshotsToTrips
    \/ StageStationIndex
    \/ StageGmrDay
    \/ StageWeather
    \/ StageGtfsStationHour
    \/ StageCovariates
    \/ StageHourFeatures
    \/ StageDayFeatures
    \/ StageDayFeatures2022
    \/ StageJoinWeather
    \/ StageMergeHourly
    \/ StageMergeDaily
    \/ StageBuildDatasets
    \/ StageBuildDatasetsSpatialRaises
    \/ ModelMatrixMain
    \/ StageDidModels

(***************************************************************************)
(* SpecHour: the script gtfs_to_station_hour.py on bounded feeds           *)
(***************************************************************************)
AllDays == <<1, 1, 1, 1, 1, 1, 1>>

\* 2025-02-28 (Fri) .. 2025-03-03 (Mon)
HourCals ==
    { <<[service_id |-> 1, flags |-> AllDays, start_date |-> 20250228, end_date |-> 20250302]>>,
      <<[service_id |-> 1, flags |-> AllDays, start_date |-> 20250301, end_date |-> 20250303]>>,
      <<[service_id |-> 1, flags |-> AllDays, start_date |-> 20250303, end_date |-> 20250303]>>,
      <<[service_id |-> 1, flags |-> Monday, start_date |-> 20250301, end_date |-> 20250303],
        [service_id |-> 2, flags |-> AllDays, start_date |-> 20250228, end_date |-> 20250301]>> }

HourCalds ==
    { <<>>,
      <<[service_id |-> 1, date |-> 20250301, exception_type |-> 2],
        [service_id |-> 2, date |-> 20250302, exception_type |-> 1]>> }

HourTrips ==
    <<[trip_id |-> 1, route_id |-> 10, service_id |-> 1],
      [trip_id |-> 2, route_id |-> 11, service_id |-> 1],
      [trip_id |-> 3, route_id |-> 10, service_id |-> 2]>>

T0815 == <<"0", "8", ":", "1", "5", ":", "0", "0">>
T0840 == <<"0", "8", ":", "4", "0", ":", "0", "0">>
T2510 == <<"2", "5", ":", "1", "0", ":", "0", "0">>
T805  == <<"8", ":", "0", "5">>
T5010 == <<"5", "0", ":", "1", "0", ":", "0", "0">>
T0820n == <<"0", "8", ":", "2", "0", "\n">>
TBad  == <<"n", "/", "a">>
TNaN  == <<>>

HourStts ==
    { <<>>,
      <<[trip_id |-> 1, stop_id |-> 1, departure_time |-> T0815],
        [trip_id |-> 2, stop_id |-> 1, departure_time |-> T0840],
        [trip_id |-> 3, stop_id |-> 2, departure_time |-> T0815],
        [trip_id |-> 1, stop_id |-> 2, departure_time |-> T2510],
        [trip_id |-> 2, stop_id |-> 2, departure_time |-> TNaN]>>,
      <<[trip_id |-> 1, stop_id |-> 1, departure_time |-> T805],
        [trip_id |-> 3, stop_id |-> 1, departure_time |-> T0815],
        [trip_id |-> 2, stop_id |-> 1, departure_time |-> T0820n]>>,
      <<[trip_id |-> 1, stop_id |-> 1, departure_time |-> TBad],
        [trip_id |-> 3, stop_id |-> 2, departure_time |-> T0840],
        [trip_id |-> 2, stop_id |-> 1, departure_time |-> T5010]>> }

HourStops ==
    { <<[stop_id |-> 1, x |-> 200], [stop_id |-> 2, x |-> 300]>>,
      <<[stop_id |-> 1, x |-> 200], [stop_id |-> 2, x |-> 5000]>>,
      <<[stop_id |-> 1, x |-> 5000], [stop_id |-> 2, x |-> 6000]>> }

StationLayouts ==
    { <<[station_id |-> 1, x |-> 0], [station_id |-> 2, x |-> 400]>> }

Feeds(tag) ==
    {[tag |-> tag, stops |-> sp, trips |-> HourTrips, stt |-> st, cal |-> c, cald |-> cd] :
        sp \in HourStops, st \in HourStts, c \in HourCals, cd \in HourCalds}

HourInit ==
    /\ STATIONS \in StationLayouts
    /\ gtfs \in {<<u, e>> : u \in Feeds("urb"), e \in Feeds("ext")}
    /\ near_maps = <<>>
    /\ d0 = 0 /\ d1 = 0
    /\ dates = <<>>
    /\ di = 1 /\ gi = 1
    /\ frames = <<>>
    /\ feat = [cols |-> {}, rows |-> <<>>]
    /\ parquet = None
    /\ hpc = "load"

HourIdle ==
    /\ STATIONS = <<>>
    /\ gtfs = <<>>
    /\ near_maps = <<>>
    /\ d0 = 0 /\ d1 = 0
    /\ dates = <<>>
    /\ di = 1 /\ gi = 1
    /\ frames = <<>>
    /\ feat = [cols |-> {}, rows |-> <<>>]
    /\ parquet = None
    /\ hpc = "idle"

\* lines 34-70: near_maps, d0, d1, dates
Prepare ==
    /\ hpc = "load"
    /\ near_maps' = [i \in DOMAIN gtfs |-> StationsNearStops(STATIONS, gtfs[i].stops)]
    /\ d0' = GtfsDateRange(gtfs)[1]
    /\ d1' = GtfsDateRange(gtfs)[2]
    /\ dates' = DateRange(GtfsDateRange(gtfs)[1], GtfsDateRange(gtfs)[2])
    /\ hpc' = "loop"
    /\ UNCHANGED <<STATIONS, gtfs, di, gi, frames, feat, parquet, notHourVars>>

InLoop == hpc = "loop" /\ di <= Len(dates)

NextIteration ==
    IF gi < Len(gtfs) THEN gi' = gi + 1 /\ di' = di
                      ELSE gi' = 1 /\ di' = di + 1

\* lines 76-80: no stop time of an active trip, continue
SkipPartition ==
    /\ InLoop
    /\ SttToday(gtfs[gi], dates[di]) = <<>>
    /\ NextIteration
    /\ UNCHANGED <<STATIONS, gtfs, near_maps, d0, d1, dates, frames, feat, parquet, hpc, notHourVars>>

\* lines 81-84 raise: the script ends without writing
FailPartition ==
    /\ InLoop
    /\ SttToday(gtfs[gi], dates[di]) # <<>>
    /\ SplitFails(ValidTimes(SttToday(gtfs[gi], dates[di])))
    /\ hpc' = "crashed"
    /\ UNCHANGED <<STATIONS, gtfs, near_maps, d0, d1, dates, di, gi, frames, feat, parquet, notHourVars>>

\* lines 81-91: the partition's frame of the day is appended
AppendFrame ==
    /\ InLoop
    /\ SttToday(gtfs[gi], dates[di]) # <<>>
    /\ ~SplitFails(ValidTimes(SttToday(gtfs[gi], dates[di])))
    /\ frames' = Append(frames, FrameOf(gtfs[gi], near_maps[gi], dates[di]))
    /\ NextIteration
    /\ UNCHANGED <<STATIONS, gtfs, near_maps, d0, d1, dates, feat, parquet, hpc, notHourVars>>

\* line 93
Concat ==
    /\ hpc = "loop" /\ di > Len(dates)
    /\ feat' = ConcatFrames(frames)
    /\ hpc' = "group"
    /\ UNCHANGED <<STATIONS, gtfs, near_maps, d0, d1, dates, di, gi, frames, parquet, notHourVars>>

\* lines 95-101
GroupFeat ==
    /\ hpc = "group"
    /\ DepColumns \subseteq feat.cols
    /\ feat' = [cols |-> feat.cols, rows |-> GroupSum(feat.rows)]
    /\ hpc' = "total"
    /\ UNCHANGED <<STATIONS, gtfs, near_maps, d0, d1, dates, di, gi, frames, parquet, notHourVars>>

\* lines 95-101 raise KeyError: a column named in agg() is not in the frame
GroupKeyError ==
    /\ hpc = "group"
    /\ ~(DepColumns \subseteq feat.cols)
    /\ hpc' = "crashed"
    /\ UNCHANGED <<STATIONS, gtfs, near_maps, d0, d1, dates, di, gi, frames, feat, parquet, notHourVars>>

\* lines 103-105
WriteFeat ==
    /\ hpc = "total"
    /\ parquet' = Some(WithTotal(feat.rows))
    /\ hpc' = "done"
    /\ UNCHANGED <<STATIONS, gtfs, near_maps, d0, d1, dates, di, gi, frames, feat, notHourVars>>

HourNext ==
    \/ Prepare
    \/ SkipPartition
    \/ FailPartition
    \/ AppendFrame
    \/ Concat
    \/ GroupFeat
    \/ GroupKeyError
    \/ WriteFeat

InitHour == HourInit /\ CalIdle /\ SpatialIdle /\ MapsIdle /\ FetchIdle /\ MergeIdle /\ DailyIdle /\ BuildIdle
        /\ ParseIdle
        /\ TripsIdle
        /\ MobilityIdle
        /\ PipelineIdle

SpecHour == InitHour /\ [][HourNext]_vars

InitCal == CalInit /\ HourIdle /\ SpatialIdle /\ MapsIdle /\ FetchIdle /\ MergeIdle /\ DailyIdle /\ BuildIdle
        /\ ParseIdle
        /\ TripsIdle
        /\ MobilityIdle
        /\ PipelineIdle

InitSpatial == SpatialInit /\ CalIdle /\ HourIdle /\ MapsIdle /\ FetchIdle /\ MergeIdle /\ DailyIdle /\ BuildIdle
        /\ ParseIdle
        /\ TripsIdle
        /\ MobilityIdle
        /\ PipelineIdle

InitMaps == MapsInit /\ CalIdle /\ HourIdle /\ SpatialIdle /\ FetchIdle /\ MergeIdle /\ DailyIdle /\ BuildIdle
        /\ ParseIdle
        /\ TripsIdle
        /\ MobilityIdle
        /\ PipelineIdle

SpecMaps == InitMaps /\ [][MapsNext]_vars

SpecSpatial == InitSpatial /\ [][SpatialNext]_vars

SpecCal == InitCal /\ [][CalNext]_vars

InitFetch == FetchInit /\ CalIdle /\ HourIdle /\ SpatialIdle /\ MapsIdle /\ MergeIdle /\ DailyIdle /\ BuildIdle
        /\ ParseIdle
        /\ TripsIdle
        /\ MobilityIdle
        /\ PipelineIdle

InitMerge == MergeInit /\ CalIdle /\ HourIdle /\ SpatialIdle /\ MapsIdle /\ FetchIdle /\ DailyIdle /\ BuildIdle
        /\ ParseIdle
        /\ TripsIdle
        /\ MobilityIdle
        /\ PipelineIdle

SpecMerge == InitMerge /\ [][MergeNext]_vars

InitDaily == DailyInit /\ CalIdle /\ HourIdle /\ SpatialIdle /\ MapsIdle /\ FetchIdle /\ MergeIdle /\ BuildIdle
        /\ ParseIdle
        /\ TripsIdle
        /\ MobilityIdle
        /\ PipelineIdle

SpecDaily == InitDaily /\ [][DailyNext]_vars

InitBuild ==
    BuildInit /\ CalIdle /\ HourIdle /\ SpatialIdle /\ MapsIdle /\ FetchIdle /\ MergeIdle
        /\ DailyIdle
        /\ ParseIdle
        /\ TripsIdle
        /\ MobilityIdle
        /\ PipelineIdle

SpecBuild == InitBuild /\ [][BuildNext]_vars

SpecFetch == InitFetch /\ [][FetchNext]_vars

InitPipeline ==
    PipelineInit /\ CalIdle /\ HourIdle /\ SpatialIdle /\ MapsIdle /\ FetchIdle /\ MergeIdle /\ DailyIdle /\ BuildIdle /\ ParseIdle /\ TripsIdle /\ MobilityIdle

SpecPipeline == InitPipeline /\ [][PipelineNext]_vars

InitMobility ==
    MobilityInit /\ CalIdle /\ HourIdle /\ SpatialIdle /\ MapsIdle /\ FetchIdle /\ MergeIdle /\ DailyIdle /\ BuildIdle /\ ParseIdle /\ TripsIdle
        /\ PipelineIdle

SpecMobility == InitMobility /\ [][MobilityNext]_vars

InitTrips ==
    TripsInit /\ CalIdle /\ HourIdle /\ SpatialIdle /\ MapsIdle /\ FetchIdle /\ MergeIdle /\ DailyIdle /\ BuildIdle /\ ParseIdle
        /\ MobilityIdle
        /\ PipelineIdle

SpecTrips == InitTrips /\ [][TripsNext]_vars

InitParse ==
    ParseInit /\ CalIdle /\ HourIdle /\ SpatialIdle /\ MapsIdle /\ FetchIdle /\ MergeIdle /\ DailyIdle /\ BuildIdle
        /\ TripsIdle
        /\ MobilityIdle
        /\ PipelineIdle

SpecParse == InitParse /\ [][ParseNext]_vars

(***************************************************************************)
(* Claims on active_services_on (SpecCal)                                  *)
(***************************************************************************)
\* the statement's own reading of the two tables, row by row
HasException(s, k) ==
    \E i \in DOMAIN cald :
        /\ cald[i].service_id = s
        /\ cald[i].date = Strftime(day)
        /\ cald[i].exception_type = k

WeeklyActive(s) ==
    \E i \in DOMAIN cal :
        /\ cal[i].service_id = s
        /\ cal[i].flags[Weekday(day) + 1] = 1
        /\ cal[i].start_date <= Strftime(day)
        /\ Strftime(day) <= cal[i].end_date

ExceptionsOfDay == SelectSeq(cald, LAMBDA r : r.date = Strftime(day))

\* C1: an add exception (and no remove) on the date puts the service in the
\* returned set whatever its weekly pattern and validity range; a remove
\* exception on the date keeps it out; exceptions on other dates change nothing.
C1_ExceptionsOverride ==
    calpc = "done" =>
        /\ \A s \in Services :
              /\ (HasException(s, 1) /\ ~HasException(s, 2)) => s \in active
              /\ HasException(s, 2) => s \notin active
        /\ active = ActiveServicesOn(cal, ExceptionsOfDay, day)

C1_Witness ==
    /\ calpc = "done"
    /\ \E s \in Services : HasException(s, 1) /\ ~WeeklyActive(s) /\ s \in active
    /\ \E s \in Services : HasException(s, 2) /\ WeeklyActive(s) /\ s \notin active
    /\ \E i \in DOMAIN cald : cald[i].date # Strftime(day)

\* C2 (as stated): the returned set is exactly the services with
\* (weekly flag and date in range and not removed) or added, also for a service
\* that is both added and removed on the date.
C2_AsStated ==
    calpc = "done" =>
        active = {s \in Services :
                    \/ WeeklyActive(s) /\ ~HasException(s, 2)
                    \/ HasException(s, 1)}

\* C2 (amended): the returned set is exactly the services that are not removed
\* on the date and are either weekly-active in range or added on the date; a
\* service both added and removed on the date is not returned.
C2_RemovalWins ==
    calpc = "done" =>
        active = {s \in Services :
                    /\ ~HasException(s, 2)
                    /\ (WeeklyActive(s) \/ HasException(s, 1))}

C2_Witness ==
    /\ calpc = "done"
    /\ \E s \in Services : HasException(s, 1) /\ HasException(s, 2) /\ s \notin active
    /\ \E s \in Services : WeeklyActive(s) /\ ~HasException(s, 2) /\ s \in active

(***************************************************************************)
(* Claims on gtfs_to_station_hour.py (SpecHour)                            *)
(***************************************************************************)
\* the days the statement speaks of: day t lies inside partition i's range
\* [earliest start_date, latest end_date], read off the calendar rows
InPartitionRange(i, t) ==
    /\ \E j \in DOMAIN gtfs[i].cal : gtfs[i].cal[j].start_date <= Strftime(t)
    /\ \E j \in DOMAIN gtfs[i].cal : Strftime(t) <= gtfs[i].cal[j].end_date

HourWindow == ToDatetime(20250225)..ToDatetime(20250306)

DaysInEveryPartition == {t \in HourWindow : \A i \in DOMAIN gtfs : InPartitionRange(i, t)}
DaysInSomePartition == {t \in HourWindow : \E i \in DOMAIN gtfs : InPartitionRange(i, t)}

FrameDates ==
    UNION {{frames[f].rows[k].date : k \in DOMAIN frames[f].rows} : f \in DOMAIN frames}

\* C3: the dates iterated are exactly the days inside every partition's range
\* (d0 the latest partition start, d1 the earliest partition end); rows exist
\* only for those days, and none at all when the ranges do not overlap.
C3_DatesAreIntersection ==
    hpc \in {"loop", "group", "total", "done", "crashed"} =>
        /\ \A i \in DOMAIN gtfs : PartitionStart(gtfs[i]) <= d0 /\ d1 <= PartitionEnd(gtfs[i])
        /\ \E i \in DOMAIN gtfs : PartitionStart(gtfs[i]) = d0
        /\ \E i \in DOMAIN gtfs : PartitionEnd(gtfs[i]) = d1
        /\ Range(dates) = DaysInEveryPartition
        /\ Len(dates) = Cardinality(DaysInEveryPartition)
        /\ FrameDates \subseteq DaysInEveryPartition
        /\ parquet # None =>
              \A k \in DOMAIN parquet[1] : parquet[1][k].date \in DaysInEveryPartition
        /\ DaysInEveryPartition = {} =>
              /\ dates = <<>> /\ frames = <<>>
              /\ parquet # None => parquet[1] = <<>>

C3_Witness ==
    /\ hpc = "done"
    /\ DaysInEveryPartition # {}
    /\ DaysInSomePartition \ DaysInEveryPartition # {}
    /\ parquet[1] # <<>>
    /\ \E i, j \in DOMAIN gtfs : PartitionStart(gtfs[i]) < PartitionStart(gtfs[j])

KeyOfRow(r) == <<r.station_id, r.date, r.hour>>

FrameKeys(tag) ==
    UNION {{KeyOfRow(frames[f].rows[k]) : k \in DOMAIN frames[f].rows} :
              f \in {h \in DOMAIN frames : frames[h].tag = tag}}

\* C10: in the written table the key (station_id, date, hour) is unique, and
\* every key of a partition frame is present: frames of the same station, date
\* and hour are one row.
C10_HourKeyUnique ==
    parquet # None =>
        /\ \A i, j \in DOMAIN parquet[1] :
              i # j => KeyOfRow(parquet[1][i]) # KeyOfRow(parquet[1][j])
        /\ {KeyOfRow(parquet[1][k]) : k \in DOMAIN parquet[1]}
              = FrameKeys("urb") \cup FrameKeys("ext")

C10_Witness ==
    /\ parquet # None
    /\ \E k \in DOMAIN parquet[1] :
          /\ KeyOfRow(parquet[1][k]) \in FrameKeys("urb") \cap FrameKeys("ext")
          /\ parquet[1][k].dep_hour_urb_300m > 0
          /\ parquet[1][k].dep_hour_ext_300m > 0

\* ---- what the written table holds, read against the feeds ----
TagOf(i) == gtfs[i].tag

\* the value of partition i's column in the row (s, t, h); no row means no
\* departure
ColumnValue(i, s, t, h) ==
    LET hit == {k \in DOMAIN parquet[1] : KeyOfRow(parquet[1][k]) = <<s, t, h>>}
    IN  IF hit = {} THEN 0
        ELSE LET r == parquet[1][CHOOSE k \in hit : TRUE]
             IN  IF TagOf(i) = "urb" THEN r.dep_hour_urb_300m ELSE r.dep_hour_ext_300m

\* the stop_times rows of partition i whose trip runs on day t
RunsOn(i, t) ==
    LET running == ActiveServicesOn(gtfs[i].cal, gtfs[i].cald, t)
    IN  {k \in DOMAIN gtfs[i].stt :
            \E j \in DOMAIN gtfs[i].trips :
                /\ gtfs[i].trips[j].trip_id = gtfs[i].stt[k].trip_id
                /\ gtfs[i].trips[j].service_id \in running}

WellFormed(t) == NotNa(t) /\ MatchesTime(t)

\* the stops of partition i strictly inside the 300 m buffer of station s
StopsNear(i, s) ==
    {gtfs[i].stops[j].stop_id : j \in
        {j \in DOMAIN gtfs[i].stops :
            \E n \in DOMAIN STATIONS :
                /\ STATIONS[n].station_id = s
                /\ Abs(STATIONS[n].x - gtfs[i].stops[j].x) < BUFFER_M}}

\* the well-formed departures of day t at stops near s whose hour satisfies P
DeparturesAt(i, s, t, P(_)) ==
    {k \in RunsOn(i, t) :
        /\ WellFormed(gtfs[i].stt[k].departure_time)
        /\ gtfs[i].stt[k].stop_id \in StopsNear(i, s)
        /\ P(HourField(gtfs[i].stt[k].departure_time))}

StationIds == {STATIONS[n].station_id : n \in DOMAIN STATIONS}
OutputHours == 0..(HourModulus - 1)
LateHours == 24..(HourModulus - 1)

\* the hours of 0..47 that occur at all: as the hour of a written row, or as
\* the hour field of a well-formed departure_time, taken as written and
\* modulo 48.  At any other hour the table has no row and the feeds have no
\* departure.
HoursSeen ==
    {parquet[1][k].hour : k \in DOMAIN parquet[1]}
    \cup UNION {UNION {{HourField(gtfs[i].stt[k].departure_time),
                        HourField(gtfs[i].stt[k].departure_time) % HourModulus}
                          : k \in {n \in DOMAIN gtfs[i].stt :
                                     WellFormed(gtfs[i].stt[n].departure_time)}}
                   : i \in DOMAIN gtfs}

\* C12: in every row of the written table the total is the sum of the urban
\* and the extra-urban column, a partition without departure for the key
\* counting 0.
C12_TotalIsSum ==
    parquet # None =>
        \A k \in DOMAIN parquet[1] :
            LET r == parquet[1][k]
            IN  /\ r.dep_hour_total_300m = r.dep_hour_urb_300m + r.dep_hour_ext_300m
                /\ KeyOfRow(r) \notin FrameKeys("urb") => r.dep_hour_urb_300m = 0
                /\ KeyOfRow(r) \notin FrameKeys("ext") => r.dep_hour_ext_300m = 0

C12_Witness ==
    /\ parquet # None
    /\ \E k \in DOMAIN parquet[1] :
          /\ KeyOfRow(parquet[1][k]) \notin FrameKeys("ext")
          /\ parquet[1][k].dep_hour_urb_300m > 0
          /\ parquet[1][k].dep_hour_total_300m = parquet[1][k].dep_hour_urb_300m
    /\ \E k \in DOMAIN parquet[1] :
          /\ parquet[1][k].dep_hour_urb_300m > 0
          /\ parquet[1][k].dep_hour_ext_300m > 0

\* C13: a departure written with an hour H in 24..47 is counted in the row of
\* hour H on the service date; the rows of the hours 0..23 hold no departure
\* written with an hour in 24..47, and every hour of the table is in 0..47.
C13_LateHoursKept ==
    parquet # None =>
        /\ \A k \in DOMAIN parquet[1] : parquet[1][k].hour \in OutputHours
        /\ \A i \in DOMAIN gtfs, s \in StationIds, t \in Range(dates) :
              /\ \A late \in LateHours \cap HoursSeen :
                    ColumnValue(i, s, t, late)
                        = Cardinality(DeparturesAt(i, s, t, LAMBDA w : w = late))
              /\ \A h \in (0..23) \cap HoursSeen :
                    ColumnValue(i, s, t, h)
                        <= Cardinality(DeparturesAt(i, s, t, LAMBDA w : w \notin LateHours
                                                                        /\ w % 24 = h % 24))

C13_Witness ==
    /\ parquet # None
    /\ \E i \in DOMAIN gtfs, s \in StationIds, t \in Range(dates) :
          /\ ColumnValue(i, s, t, 25) > 0
          /\ ColumnValue(i, s, t, 1) = 0
          /\ t + 1 \in Range(dates) => ColumnValue(i, s, t + 1, 1) = 0

\* the stops of partition i within 300 m of station s, the distance of
\* 300 m included
StopsWithin300(i, s) ==
    {gtfs[i].stops[j].stop_id : j \in
        {j \in DOMAIN gtfs[i].stops :
            \E n \in DOMAIN STATIONS :
                /\ STATIONS[n].station_id = s
                /\ Abs(STATIONS[n].x - gtfs[i].stops[j].x) <= BUFFER_M}}

\* C15 (as stated): the column of partition p in the row (station, date,
\* hour) is the number of pairs (departure, stop) with the stop of p within
\* 300 m of the station, the trip's service active on the date and the
\* departure written at that hour; a stop near two stations counts for both,
\* a stop near none for none, a trip that does not run on the date for
\* nothing.
C15_DeparturesNearStation ==
    parquet # None =>
        \A i \in DOMAIN gtfs, s \in StationIds, t \in Range(dates),
           h \in OutputHours \cap HoursSeen :
            ColumnValue(i, s, t, h)
                = Cardinality({k \in RunsOn(i, t) :
                                  /\ WellFormed(gtfs[i].stt[k].departure_time)
                                  /\ gtfs[i].stt[k].stop_id \in StopsWithin300(i, s)
                                  /\ HourField(gtfs[i].stt[k].departure_time) = h})

\* C14 (as stated): no departure is counted at an hour other than the hour
\* written in its departure_time, also when that hour is 48 or more.
C14_CountedAtWrittenHour ==
    parquet # None =>
        \A i \in DOMAIN gtfs, s \in StationIds, t \in Range(dates),
           h \in OutputHours \cap HoursSeen :
            ColumnValue(i, s, t, h)
                <= Cardinality(DeparturesAt(i, s, t, LAMBDA w : w = h))

\* C26 (as stated): once the loop is over and a partition has put departures
\* near a station into a frame, the script completes and writes the table,
\* also when the other partition has appended no frame.
C26_CompletesWithOnePartition ==
    (/\ feat.cols # {}
     /\ \E f \in DOMAIN frames : frames[f].rows # <<>>)
        => /\ hpc # "crashed"
           /\ hpc = "done" => \A k \in DOMAIN parquet[1] :
                                  parquet[1][k].dep_hour_total_300m
                                      = parquet[1][k].dep_hour_urb_300m
                                        + parquet[1][k].dep_hour_ext_300m

(***************************************************************************)
(* Claims on build_spatial and _routes_per_stop (SpecSpatial)              *)
(***************************************************************************)
StationX(sid) == gstations[CHOOSE i \in DOMAIN gstations : gstations[i].station_id = sid].x

\* the stops (positions in gstops) within r metres of station sid
StopsWithin(sid, r) == {j \in DOMAIN gstops : Abs(StationX(sid) - gstops[j].x) <= r}

InStopTimes(stop) == \E i \in DOMAIN stop_times : stop_times[i].stop_id = stop

\* the distinct routes of the trips that call at the stop
RoutesCalling(stop) ==
    {trips[k].route_id[1] :
        k \in {t \in DOMAIN trips :
                /\ trips[t].route_id # None
                /\ \E i \in DOMAIN stop_times :
                      stop_times[i].stop_id = stop /\ stop_times[i].trip_id = trips[t].trip_id}}

\* sum over the stops in W of their number of distinct routes
RoutesOver(W) ==
    SumSeq([j \in DOMAIN gstops |->
                IF j \in W THEN Cardinality(RoutesCalling(gstops[j].stop_id)) ELSE 0])

\* C4 (as stated): every count is a non-negative integer, and a station with no
\* stop within r has stops_<r>m = 0 and routes_<r>m = 0.
C4_ZeroWhenNoStop ==
    accessibility # None =>
        \A k \in DOMAIN accessibility[1] : \A b \in DOMAIN buffer_m :
            LET row == accessibility[1][k]
            IN  /\ row.stops_m[b] \in Nat
                /\ row.routes_m[b] \in Nat
                /\ StopsWithin(row.station_id, buffer_m[b]) = {} =>
                      (row.stops_m[b] = 0 /\ row.routes_m[b] = 0)

\* C5: for a station with at least one stop within r, stops_<r>m is the number
\* of stops within r and routes_<r>m the sum of their distinct-route counts.
C5_CountsWithinRadius ==
    accessibility # None =>
        \A k \in DOMAIN accessibility[1] : \A b \in DOMAIN buffer_m :
            LET row == accessibility[1][k]
                W == StopsWithin(row.station_id, buffer_m[b])
            IN  W # {} =>
                    /\ row.stops_m[b] = Cardinality(W)
                    /\ row.routes_m[b] = RoutesOver(W)

C5_Witness ==
    /\ accessibility # None
    /\ \E k \in DOMAIN accessibility[1] :
          /\ Cardinality(StopsWithin(accessibility[1][k].station_id, 300)) = 1
          /\ accessibility[1][k].stops_m[1] = 1
          /\ accessibility[1][k].routes_m[1] = 2
    /\ \E k \in DOMAIN accessibility[1] :
          /\ accessibility[1][k].stops_m[2] = 2
          /\ accessibility[1][k].routes_m[2] = 3

\* C6: a stop that no stop_times row references gets route count 0 (not NaN) in
\* the stop layer of every radius; it counts as a stop of every station within r
\* of it and adds nothing to that station's routes_<r>m.
C6_MissingRouteCountIsZero ==
    /\ \A j \in DOMAIN gstops_routes :
          ~InStopTimes(gstops_routes[j].stop_id) =>
              gstops_routes[j].n_routes_at_stop = Some(0)
    /\ \A r \in DOMAIN rings : \A j \in DOMAIN rings[r] :
          ~InStopTimes(rings[r][j].stop_id) => rings[r][j].n_routes_at_stop = Some(0)
    /\ accessibility # None =>
          \A k \in DOMAIN accessibility[1] : \A b \in DOMAIN buffer_m :
              LET row == accessibility[1][k]
                  W == StopsWithin(row.station_id, buffer_m[b])
              IN  (\E j \in W : ~InStopTimes(gstops[j].stop_id)) =>
                      /\ row.stops_m[b] = Cardinality(W)
                      /\ row.routes_m[b] =
                            RoutesOver({j \in W : InStopTimes(gstops[j].stop_id)})

C6_Witness ==
    /\ accessibility # None
    /\ \E k \in DOMAIN accessibility[1] :
          LET W == StopsWithin(accessibility[1][k].station_id, 300)
          IN  /\ \E j \in W : ~InStopTimes(gstops[j].stop_id)
              /\ \E j \in W : InStopTimes(gstops[j].stop_id)
              /\ accessibility[1][k].stops_m[1] = 2
              /\ accessibility[1][k].routes_m[1] = 2

\* C7: the route-count table has one row for every stop_id of stop_times, holding
\* the number of distinct routes of the trips calling there (a route counted
\* once, an unmatched trip not at all), and every radius uses that same value.
C7_DistinctRoutesPerStop ==
    spc \in {"buffers", "done"} =>
        /\ {routes_at_stop[k].stop_id : k \in DOMAIN routes_at_stop}
              = {stop_times[i].stop_id : i \in DOMAIN stop_times}
        /\ \A k, l \in DOMAIN routes_at_stop :
              k # l => routes_at_stop[k].stop_id # routes_at_stop[l].stop_id
        /\ \A k \in DOMAIN routes_at_stop :
              routes_at_stop[k].n_routes_at_stop
                  = Cardinality(RoutesCalling(routes_at_stop[k].stop_id))
        /\ \A r \in DOMAIN rings : \A j \in DOMAIN rings[r] :
              InStopTimes(rings[r][j].stop_id) =>
                  rings[r][j].n_routes_at_stop
                      = Some(Cardinality(RoutesCalling(rings[r][j].stop_id)))
        /\ spc = "done" => Len(rings) = Len(buffer_m)

C7_Witness ==
    /\ spc = "done"
    /\ Len(rings) = 2
    /\ \E k \in DOMAIN routes_at_stop :
          /\ routes_at_stop[k].n_routes_at_stop = 2
          /\ Cardinality({i \in DOMAIN stop_times :
                            stop_times[i].stop_id = routes_at_stop[k].stop_id}) = 3
    /\ \E k \in DOMAIN routes_at_stop :
          /\ routes_at_stop[k].n_routes_at_stop = 1
          /\ Cardinality({i \in DOMAIN stop_times :
                            stop_times[i].stop_id = routes_at_stop[k].stop_id}) = 2

\* C9 (as stated): the accessibility table has exactly one row per station.
C9_OneRowPerStation ==
    accessibility # None =>
        /\ Len(accessibility[1]) = Len(gstations)
        /\ \A k, l \in DOMAIN accessibility[1] :
              k # l => accessibility[1][k].station_id # accessibility[1][l].station_id

(***************************************************************************)
(* Claims on run_maps (SpecMaps)                                           *)
(***************************************************************************)
BothPresent(frame, k, b) ==
    /\ "stops" \in frame.cols[b] /\ "routes" \in frame.cols[b]
    /\ frame.rows[k][b].stops # None /\ frame.rows[k][b].routes # None

FitsFormula(frame, k, b) ==
    /\ "idx" \in frame.cols[b]
    /\ frame.rows[k][b].idx2 # None
    /\ frame.rows[k][b].idx2[1] = 2 * frame.rows[k][b].stops[1] + frame.rows[k][b].routes[1]

\* C8 (as stated): after step 3 every row holding both counts satisfies
\* idx = stops + 0.5 * routes, whatever columns the file already had.
C8_AsStated ==
    mpc = "done" =>
        \A b \in DOMAIN MapRadii : \A k \in DOMAIN g.rows :
            BothPresent(g, k, b) => FitsFormula(g, k, b)

\* C8 (amended): when the file had no idx_intermodal_<r>m column, every row
\* holding both counts satisfies idx = stops + 0.5 * routes after step 3; a
\* column the file already had is kept as it was, whatever it holds.
C8_IndexWhenMissing ==
    mpc = "done" =>
        \A b \in DOMAIN MapRadii :
            /\ "idx" \notin gfile.cols[b] =>
                  \A k \in DOMAIN g.rows : BothPresent(g, k, b) => FitsFormula(g, k, b)
            /\ "idx" \in gfile.cols[b] =>
                  \A k \in DOMAIN g.rows : g.rows[k][b].idx2 = gfile.rows[k][b].idx2
            /\ \A k \in DOMAIN g.rows :
                  /\ g.rows[k][b].stops = gfile.rows[k][b].stops
                  /\ g.rows[k][b].routes = gfile.rows[k][b].routes

C8_Witness ==
    /\ mpc = "done"
    /\ \E b \in DOMAIN MapRadii : \E k \in DOMAIN g.rows :
          /\ "idx" \notin gfile.cols[b]
          /\ BothPresent(g, k, b)
          /\ g.rows[k][b].routes[1] > 0
          /\ FitsFormula(g, k, b)
    /\ \E b \in DOMAIN MapRadii : \E k \in DOMAIN g.rows :
          /\ "idx" \in gfile.cols[b]
          /\ BothPresent(g, k, b)
          /\ ~FitsFormula(g, k, b)

(***************************************************************************)
(* Claims on bicincitta_fetch_json.py (SpecFetch)                          *)
(***************************************************************************)
\* C17 (as stated): in loop mode a failed fetch cycle does not end the
\* process; the loop goes on to a later cycle.
C17_FailureKeepsLooping ==
    ~once => fpc # "raised"

\* C18 (as stated): every file of the status directory holds the rows of one
\* cycle stamped with the time in its name, and once written a file is never
\* replaced by a later cycle.
C18_SnapshotsKept ==
    [][\A f \in status :
          /\ f.rows # <<>>
          /\ \A k \in DOMAIN f.rows : f.rows[k].timestamp = f.name
          /\ f \in status']_vars

(***************************************************************************)
(* Claims on merge_hourly_features.py (SpecMerge)                          *)
(***************************************************************************)
\* C16 (as stated): with unique keys in both inputs and a GTFS table that
\* covers more than one date, the merged table has exactly the rows of
\* station_hour.parquet and (station_id, date, hour) stays unique.
C16_RowCountKept ==
    (mgpc = "done" /\ Cardinality({Xg[k].date : k \in DOMAIN Xg}) > 1) =>
        /\ Len(out[1]) = Len(H)
        /\ \A i, j \in DOMAIN out[1] :
              i # j => <<out[1][i].row.station_id, out[1][i].row.date_x, out[1][i].row.hour>>
                         # <<out[1][j].row.station_id, out[1][j].row.date_x, out[1][j].row.hour>>

(***************************************************************************)
(* Claims on the daily tables (SpecDaily)                                  *)
(***************************************************************************)
\* the hourly rows of one station-day
HoursOf(sid, t) == {k \in DOMAIN gtfsH : gtfsH[k].station_id = sid /\ gtfsH[k].date = t}

SumOver(K, f(_)) == SumSeq([k \in DOMAIN gtfsH |-> IF k \in K THEN f(gtfsH[k]) ELSE 0])

DailyFits(sid, t, urb, ext, tot) ==
    /\ tot = Some(SumOver(HoursOf(sid, t), LAMBDA r : r.dep_hour_total_300m))
    /\ urb = Some(SumOver(HoursOf(sid, t), LAMBDA r : r.dep_hour_urb_300m))
    /\ ext = Some(SumOver(HoursOf(sid, t), LAMBDA r : r.dep_hour_ext_300m))
    /\ tot[1] = urb[1] + ext[1]

FeatureCell(k, name) == sdf[1].rows[k][ColumnIndex(sdf[1].cols, <<name>>)]

\* C11: for a station-day of the hourly table, the daily values written by 04
\* and by 07 are the sums over that day's hourly rows, and the daily total is
\* the urban plus the extra-urban daily value.
C11_DailyIsSumOfHours ==
    /\ cov # None =>
          \A k \in DOMAIN cov[1] :
              HoursOf(cov[1][k].station_id, cov[1][k].date) # {} =>
                  DailyFits(cov[1][k].station_id, cov[1][k].date, cov[1][k].dep_urb_day,
                            cov[1][k].dep_ext_day, cov[1][k].dep_tot_day)
    /\ jpc = "fresh" =>
          \A k \in DOMAIN sdf[1].rows :
              HoursOf(FeatureCell(k, "station_id")[1], FeatureCell(k, "date")[1]) # {} =>
                  DailyFits(FeatureCell(k, "station_id")[1], FeatureCell(k, "date")[1],
                            FeatureCell(k, "dep_urb_day"), FeatureCell(k, "dep_ext_day"),
                            FeatureCell(k, "dep_tot_day"))

C11_Witness ==
    /\ cov # None /\ jpc = "fresh"
    /\ \E k \in DOMAIN cov[1], n \in DOMAIN sdf[1].rows :
          /\ Cardinality(HoursOf(cov[1][k].station_id, cov[1][k].date)) > 1
          /\ FeatureCell(n, "station_id") = Some(cov[1][k].station_id)
          /\ FeatureCell(n, "date") = Some(cov[1][k].date)
          /\ cov[1][k].dep_tot_day = FeatureCell(n, "dep_tot_day")
          /\ cov[1][k].dep_urb_day # None /\ cov[1][k].dep_urb_day[1] > 0
          /\ cov[1][k].dep_ext_day # None /\ cov[1][k].dep_ext_day[1] > 0
          /\ \E h \in HoursOf(cov[1][k].station_id, cov[1][k].date) :
                gtfsH[h].dep_hour_total_300m < cov[1][k].dep_tot_day[1]

\* C19 (as stated): running 09_join_weather again, its inputs unchanged,
\* leaves station_day_features_2022.parquet with the same columns and rows.
C19_RerunKeepsOutput ==
    [][(jpc = "joined" /\ jpc' = "rejoined") =>
          /\ sdf'[1].cols = sdf[1].cols
          /\ sdf'[1].rows = sdf[1].rows]_vars

(***************************************************************************)
(* Claims on the builders' required files (SpecBuild)                      *)
(***************************************************************************)
SpatialOutputs == {"station_accessibility_2025.parquet", "station_accessibility_2025.geojson"}
MatrixOutputs == {"model_matrix_hour.parquet", "model_matrix_day.parquet"}

\* C20: a builder whose required upstream file is absent writes none of its
\* outputs, and after a failure of build_temporal build_spatial is not started.
C20_NoOutputWithoutUpstream ==
    /\ ("meteo_daily.parquet" \notin present \/ "mobility_trento_2022.parquet" \notin present)
          => /\ "temporal_2022.parquet" \notin written
             /\ bpc \in {"start", "raised_temporal"}
    /\ ("stations_clean.geojson" \notin present \/ "gtfs_stops_2025.geojson" \notin present)
          => /\ written \cap SpatialOutputs = {}
             /\ bpc # "done"
    /\ (\E f \in {"station_hour_outcomes.parquet", "station_day_outcomes.parquet",
                  "station_index.csv", "gmr_day.parquet", "weather_2022.parquet"} :
            f \notin present)
          => /\ written \cap MatrixOutputs = {}
             /\ xpc \in {"start", "raised"}
    /\ bpc = "raised_temporal" => written \cap SpatialOutputs = {}

C20_Witness ==
    /\ bpc = "raised_spatial"
    /\ "stations_clean.geojson" \notin present
    /\ "temporal_2022.parquet" \in written
    /\ xpc = "raised"
    /\ "gtfs_station_hour.parquet" \in present
    /\ "weather_2022.parquet" \notin present
    /\ written = {"temporal_2022.parquet"}

(***************************************************************************)
(* Claims on 04_covariates_station_day.py (SpecDaily)                      *)
(***************************************************************************)
\* the dates present in the hourly GTFS table
HourlyDates == {gtfsH[i].date : i \in DOMAIN gtfsH}

\* the stations of the station index
IndexStations == {stidx[i].station_id : i \in DOMAIN stidx}

\* C23: station_day_covariates.parquet has exactly one row for every pair
\* (station of the index, date of the hourly GTFS table): the key is unique,
\* the row count is stations x dates, and a station without departures on a
\* date is kept.
C23_OneRowPerStationDate ==
    cov # None =>
        LET rows == cov[1]
        IN  /\ Len(rows) = Cardinality(IndexStations) * Cardinality(HourlyDates)
            /\ \A i, j \in DOMAIN rows :
                   (rows[i].station_id = rows[j].station_id /\ rows[i].date = rows[j].date)
                       => i = j
            /\ \A sid \in IndexStations, d \in HourlyDates :
                   \E i \in DOMAIN rows : rows[i].station_id = sid /\ rows[i].date = d

\* a written grid of two stations on two dates in which a station has no
\* departure on one of the dates
C23_Witness ==
    /\ cov # None
    /\ Cardinality(IndexStations) = 2
    /\ Cardinality(HourlyDates) = 2
    /\ \E i \in DOMAIN cov[1] : cov[1][i].dep_tot_day = None
    /\ \E i \in DOMAIN cov[1] : cov[1][i].dep_tot_day # None

(***************************************************************************)
(* Claims on the __main__ block of bicincitta_fetch_json.py (SpecFetch)    *)
(***************************************************************************)
\* C29 (as stated): with FETCH_ONCE unset or "1" the fetcher does one cycle,
\* writes at most one snapshot, closes the session and terminates; with any
\* other value it never terminates on its own; the session is closed on
\* every exit path.
C29_OnceExitsLoopNeverDoes ==
    /\ once => /\ fpc # "sleep"
               /\ Cardinality(status) <= 1
    /\ ~once => fpc \notin {"exited", "raised"}
    /\ sess = "closed" <=> fpc \in {"exited", "raised"}

(***************************************************************************)
(* Claims on fetch_once and parse_station_record (SpecParse)               *)
(***************************************************************************)
\* a payload element that is a string of at least 7 fields whose lat, lon
\* parse as numbers and whose bikes, docks parse as integers
WellFormedRecord(e) ==
    /\ e.str
    /\ Len(e.parts) >= 7
    /\ e.parts[2] # None /\ e.parts[3] # None
    /\ e.parts[6] # None /\ e.parts[7] # None

\* the positions 2..Len(d) of the payload that hold a well-formed record
RecordPositions == {n \in 2..Len(js.d) : WellFormedRecord(js.d[n])}

\* C30: fetch_once returns, in payload order, one row for each well-formed
\* string element after the first; the first element is ignored, other
\* elements are skipped, and a payload that is not a non-empty list yields
\* no rows.
C30_RowsOfWellFormedRecords ==
    ppc = "returned" =>
        /\ Len(fetched[1]) = Cardinality(RecordPositions)
        /\ \A k \in DOMAIN fetched[1] :
               \E n \in RecordPositions :
                   /\ Cardinality({m \in RecordPositions : m <= n}) = k
                   /\ fetched[1][k].station_id = js.d[n].parts[1][1]
                   /\ fetched[1][k].bikes = js.d[n].parts[6][1]
                   /\ fetched[1][k].docks = js.d[n].parts[7][1]
        /\ (~js.list \/ js.d = <<>>) => fetched[1] = <<>>

\* a payload whose first element is a well-formed record (ignored), followed
\* by a malformed element and a well-formed one: one row comes back
C30_Witness ==
    /\ ppc = "returned"
    /\ Len(js.d) = 3
    /\ WellFormedRecord(js.d[1])
    /\ ~WellFormedRecord(js.d[2])
    /\ WellFormedRecord(js.d[3])
    /\ Len(fetched[1]) = 1

(***************************************************************************)
(* Claims on snapshots_to_trips.py (SpecTrips)                             *)
(***************************************************************************)
\* the script has computed pickup and return
Inferred == tpc \in {"inferred", "done"}

\* row k of df is the first snapshot of its station
FirstOfStation(k) == k = 1 \/ df[k - 1].station_id # df[k].station_id

\* the change of the bike count from the previous snapshot to row k
Change(k) == df[k].bikes - df[k - 1].bikes

\* C24 (as stated): the rebalancing filter is the strict threshold
\* |delta| > 6: a decrease of d bikes, 1 <= d <= 6, between two consecutive
\* snapshots of a station yields exactly d pickups, a change of 7 or more in
\* absolute value yields 0 pickups and 0 returns, and the first snapshot of
\* each station yields 0 pickups.
C24_FirstSnapshotZero ==
    Inferred =>
        \A k \in DOMAIN df :
            IF FirstOfStation(k)
            THEN df[k].pickup = Some(0)
            ELSE /\ -Change(k) \in 1..6 => df[k].pickup = Some(-Change(k))
                 /\ Abs(Change(k)) >= 7 => df[k].pickup = Some(0) /\ df[k].return = Some(0)

\* C24 (amended): the rebalancing filter is the strict threshold |delta| > 6:
\* a decrease of d bikes, 1 <= d <= 6, yields exactly d pickups, a change of
\* 7 or more in absolute value yields 0 pickups and 0 returns, and the first
\* snapshot of each station has no pickup value (NaN).
C24_StrictRebalancingThreshold ==
    Inferred =>
        \A k \in DOMAIN df :
            IF FirstOfStation(k)
            THEN df[k].pickup = None
            ELSE /\ -Change(k) \in 1..6 => df[k].pickup = Some(-Change(k))
                 /\ Abs(Change(k)) >= 7 => df[k].pickup = Some(0) /\ df[k].return = Some(0)

\* a station whose first snapshot has no pickup value and whose count then
\* falls by exactly 6 and rises by 7
C24_Witness ==
    /\ Inferred
    /\ \E k \in DOMAIN df : FirstOfStation(k) /\ df[k].pickup = None
    /\ \E k \in DOMAIN df : ~FirstOfStation(k) /\ Change(k) = -6 /\ df[k].pickup = Some(6)
    /\ \E k \in DOMAIN df : ~FirstOfStation(k) /\ Change(k) = 7 /\ df[k].return = Some(0)

\* the pickups of the snapshots of station sid that df dates on d
PickupsOn(sid, d) ==
    SumSeq([k \in DOMAIN df |->
               IF df[k].station_id = sid /\ df[k].date = Some(d)
               THEN OrZero(df[k].pickup) ELSE 0])

\* the hourly trips of station sid on date d
HourlyTripsOn(sid, d) ==
    SumSeq([k \in DOMAIN station_hour[1] |->
               IF station_hour[1][k].station_id = sid /\ station_hour[1][k].date = d
               THEN station_hour[1][k].trips_hour ELSE 0])

\* C27: for every station and date, trips_day is the sum of trips_hour over
\* the hours of the date and the sum of the pickups of the station's
\* snapshots of that date; (station_id, date, hour) is unique in
\* station_hour.parquet and (station_id, date) in station_day.parquet.
C27_DayIsSumOfHoursAndPickups ==
    tpc = "done" =>
        LET HH == station_hour[1]
            DD == station_day[1]
        IN  /\ \A k \in DOMAIN DD :
                   /\ DD[k].trips_day = HourlyTripsOn(DD[k].station_id, DD[k].date)
                   /\ DD[k].trips_day = PickupsOn(DD[k].station_id, DD[k].date)
            /\ \A k \in DOMAIN df :
                   df[k].date # None =>
                       /\ \E n \in DOMAIN DD : /\ DD[n].station_id = df[k].station_id
                                               /\ DD[n].date = df[k].date[1]
                       /\ \E n \in DOMAIN HH : /\ HH[n].station_id = df[k].station_id
                                               /\ HH[n].date = df[k].date[1]
                                               /\ HH[n].hour = df[k].hour[1]
            /\ \A i, j \in DOMAIN HH :
                   (/\ HH[i].station_id = HH[j].station_id
                    /\ HH[i].date = HH[j].date
                    /\ HH[i].hour = HH[j].hour) => i = j
            /\ \A i, j \in DOMAIN DD :
                   (DD[i].station_id = DD[j].station_id /\ DD[i].date = DD[j].date) => i = j

\* a station-day whose trips come from two different hours
C27_Witness ==
    /\ tpc = "done"
    /\ \E n \in DOMAIN station_day[1] :
           \E i, j \in DOMAIN station_hour[1] :
               /\ i # j
               /\ station_hour[1][i].station_id = station_day[1][n].station_id
               /\ station_hour[1][j].station_id = station_day[1][n].station_id
               /\ station_hour[1][i].date = station_day[1][n].date
               /\ station_hour[1][j].date = station_day[1][n].date
               /\ station_hour[1][i].trips_hour > 0
               /\ station_hour[1][j].trips_hour > 0
               /\ station_day[1][n].trips_day
                      = station_hour[1][i].trips_hour + station_hour[1][j].trips_hour

\* row j of df is the snapshot of the station of row k that comes right
\* before it in timestamp order
RightBefore(j, k) ==
    /\ df[j].station_id = df[k].station_id
    /\ df[j].timestamp # None /\ df[k].timestamp # None
    /\ LexLess(<<df[j].timestamp[1].day, df[j].timestamp[1].hm>>,
               <<df[k].timestamp[1].day, df[k].timestamp[1].hm>>)
    /\ \A m \in DOMAIN df :
           (df[m].station_id = df[k].station_id /\ df[m].timestamp # None /\ m # j /\ m # k)
               => \/ LexLess(<<df[m].timestamp[1].day, df[m].timestamp[1].hm>>,
                             <<df[j].timestamp[1].day, df[j].timestamp[1].hm>>)
                  \/ LexLess(<<df[k].timestamp[1].day, df[k].timestamp[1].hm>>,
                             <<df[m].timestamp[1].day, df[m].timestamp[1].hm>>)

\* pickup and return of row k are integers in 0..6, at most one of them
\* positive, and their difference is minus the filtered delta
PickupReturnOf(k) ==
    /\ df[k].pickup # None /\ df[k].return # None /\ df[k].delta # None
    /\ df[k].pickup[1] \in 0..REBAL_MAX
    /\ df[k].return[1] \in 0..REBAL_MAX
    /\ df[k].pickup[1] = 0 \/ df[k].return[1] = 0
    /\ df[k].pickup[1] - df[k].return[1] = -df[k].delta[1]

\* C28 (as stated): each delta is taken between two snapshots of the same
\* station consecutive in timestamp order, and for every snapshot pickup
\* and return are integers in 0..6, at most one positive, with
\* pickup - return = -delta.
C28_EverySnapshot ==
    Inferred =>
        \A k \in DOMAIN df :
            /\ df[k].bikes_lag # None =>
                   \E j \in DOMAIN df : RightBefore(j, k) /\ df[k].bikes_lag = Some(df[j].bikes)
            /\ PickupReturnOf(k)

\* C28 (amended): each delta is taken between two rows of the same station
\* consecutive in the order of sort_values (timestamp ascending, the
\* timestamps that localize to NaT last); every snapshot but the first of
\* its station has integer pickup and return in 0..6, at most one positive,
\* with pickup - return = -delta; the first snapshot of each station has
\* NaN delta, pickup and return.
C28_EverySnapshotButTheFirst ==
    Inferred =>
        \A k \in DOMAIN df :
            /\ k > 1 => \/ df[k - 1].station_id < df[k].station_id
                        \/ /\ df[k - 1].station_id = df[k].station_id
                           /\ \/ df[k].timestamp = None
                              \/ /\ df[k - 1].timestamp # None
                                 /\ LexLess(<<df[k - 1].timestamp[1].day, df[k - 1].timestamp[1].hm>>,
                                            <<df[k].timestamp[1].day, df[k].timestamp[1].hm>>)
            /\ IF FirstOfStation(k)
               THEN df[k].delta = None /\ df[k].pickup = None /\ df[k].return = None
               ELSE /\ df[k].bikes_lag = Some(df[k - 1].bikes)
                    /\ PickupReturnOf(k)

\* a station with a first snapshot, a later pickup and a later return
C28_Witness ==
    /\ Inferred
    /\ \E k \in DOMAIN df :
           /\ FirstOfStation(k)
           /\ k + 2 \in DOMAIN df
           /\ df[k + 2].station_id = df[k].station_id
           /\ df[k + 1].pickup # None /\ df[k + 1].pickup[1] > 0
           /\ df[k + 2].return # None /\ df[k + 2].return[1] > 0

(***************************************************************************)
(* Claims on the mobility stages (SpecMobility)                            *)
(***************************************************************************)
\* C21: a stage whose region filter matches no row of the report raises
\* and writes nothing, so that no mobility table is ever written with zero
\* rows: clean_mobility and 02_gmr_day.py end in their ValueError, and
\* INPUT/OUTPUT ends in the NameError of its first line on every report.
C21_EmptyFilterRaises ==
    /\ mobility_trento # None => cmpc = "done" /\ mobility_trento[1] # <<>>
    /\ gmr_day # None => gdpc = "done" /\ gmr_day[1].rows # <<>>
    /\ (cmpc \in {"done", "raised"} /\ TrentoRows(report) = <<>>)
           => cmpc = "raised" /\ mobility_trento = None
    /\ (gdpc \in {"done", "raised"} /\ Selected(ItalyRows(report)) = <<>>)
           => gdpc = "raised" /\ gmr_day = None
    /\ (iopc \in {"done", "raised"} /\ RegionLevelRows(report) = <<>>)
           => iopc = "raised"

\* a report with rows, none of them matched by any of the three filters:
\* the three stages have raised and nothing is written
C21_Witness ==
    /\ report # <<>>
    /\ TrentoRows(report) = <<>>
    /\ Selected(ItalyRows(report)) = <<>>
    /\ RegionLevelRows(report) = <<>>
    /\ cmpc = "raised" /\ gdpc = "raised" /\ iopc = "raised"
    /\ mobility_trento = None /\ gmr_day = None

\* C22 (as stated): the gmr_day.parquet that 02_gmr_day.py writes has at
\* most one row per date, with the province match and with the region
\* fallback.
C22_OneRowPerDate ==
    (gdpc = "done" /\ iopc # "done") =>
        \A i, j \in DOMAIN gmr_day[1].rows :
            gmr_day[1].rows[i].date = gmr_day[1].rows[j].date => i = j

(***************************************************************************)
(* Claims on the stages upstream of 03_build_model_matrix.py (SpecPipeline)*)
(***************************************************************************)
\* C25 (as stated): once the upstream stages have run, from an empty
\* data/processed, on a report that has the four mobility columns,
\* 03_build_model_matrix finds every file it reads, with the columns it
\* selects, and writes both model matrices.
C25_MatricesWritten ==
    (/\ ~seeded
     /\ UpstreamStages \subseteq ran
     /\ gmr_source = GmrSourceColumns)
        => /\ MatrixOutcome(proc) = "done"
           /\ mmpc \in {"start", "done"}

====
